---- MODULE Spec2Model ----
(***************************************************************************)
(* Request-resolution layer of the event-management GraphQL backend:       *)
(* the batched entity loaders (utils/dataLoaders.ts), the authorization    *)
(* gate and token utility (utils/auth.ts), the per-operation context       *)
(* construction (index.ts), the resolvers wrapped by the gate              *)
(* (graphql/resolvers) and the pagination engine (utils/pagination.ts).    *)
(***************************************************************************)
EXTENDS Integers, Sequences, FiniteSets, TLC

(***************************************************************************)
(* Bounds of the model.                                                    *)
(***************************************************************************)
MaxLoads == 2
MaxWrites == 1
MaxOps == 2
MaxCtxLoads == 2
MaxTokens == 1
MaxGateCalls == 2
MaxGuarded == 1
MaxPages == 1
MaxSubs == 1
MaxDeliveries == 2
MaxMuts == 2

(***************************************************************************)
(* Identifiers.  Persisted ids are 24-digit lowercase hex strings; the     *)
(* model keeps three users and two events.  A key handed to a loader is an *)
(* arbitrary string: the canonical form of an id, another spelling of the  *)
(* same id (upper-case hex, "U1"), or a string that is no ObjectId ("zz"). *)
(***************************************************************************)
UserIds == {"u1", "u2", "u3"}
EventIds == {"e1", "e2"}
\* the ids given, in this order, to the events created after start-up
NewEventIds == <<"e3", "e4", "e5", "e6">>
Oids == UserIds \cup EventIds \cup {NewEventIds[i] : i \in DOMAIN NewEventIds}
Keys == Oids \cup {"U1", "zz"}

\* The keys resolvers hand to each loader: user ids for the three loaders keyed
\* by user, event ids for the two keyed by event, each with an id of the other
\* entity kind (well formed, matching nothing) and a malformed string.
KeysOf(k) ==
  IF k \in {"eventLoader", "eventAttendeesLoader"}
    THEN {"e1", "e2", "u1", "zz"}
    ELSE {"u1", "u2", "U1", "e1", "zz"}

LoaderKinds ==
  {"userLoader", "eventLoader", "userEventsLoader",
   "userAttendingEventsLoader", "eventAttendeesLoader"}

VARIABLES
  kind,       \* which of the five loaders of createLoaders() is followed
  dbUsers,    \* persisted users: the set of their ids
  dbEvents,   \* persisted events: id -> [creator, attendees, title, createdAt, __v]
  cache,      \* DataLoader._cacheMap: key -> <<batch, index>> of its promise
  batch,      \* DataLoader._batch: index of the current batch, 0 = null
  batches,    \* every batch ever created, in creation order
  calls,      \* every load(key) call, in call order
  fetches,    \* every find() issued against the persistence collaborator
  writes,     \* number of store changes made by other requests
  clock,      \* Math.floor(Date.now() / 1000)
  issued,     \* the tokens generateToken has returned, in order
  contexts,   \* the context object of every operation received, in order
  created,    \* number of createLoaders() calls made so far
  instCache,  \* per created loader set: the cache of its followed loader
  ctxLoads,   \* the loads resolvers made through their context's loaders
  invocations,\* every invocation of a resolver wrapped by requireAuth
  gateCalls,  \* every call of a wrapper returned by requireAuth
  dbProfiles, \* persisted users: id -> the name stored in the user document
  published,  \* every pubsub.publish(topic, payload) made so far, in order
  pages,      \* every paginateQuery call, in call order
  muts,       \* every event mutation started, with the await it has reached
  subs,       \* every subscription opened: its field and its variables
  delivered   \* every payload a subscription's filter has been applied to

loaderVars == <<kind, dbUsers, dbEvents, cache, batch, batches, calls, fetches, writes>>

serverVars == <<clock, issued, contexts, created, instCache, ctxLoads, invocations, gateCalls>>

appVars == <<dbProfiles, published, pages>>

liveVars == <<muts, subs, delivered>>

vars == <<loaderVars, serverVars, appVars, liveVars>>

(***************************************************************************)
(* new Types.ObjectId(id) and ObjectId.prototype.toString().               *)
(***************************************************************************)
isValidObjectId(id) == id \in Oids \cup {"U1"}

\* new Types.ObjectId(id).toString(): the lowercase hex form of the id.
ObjectId(id) == IF id = "U1" THEN "u1" ELSE id

Range(s) == {s[i] : i \in DOMAIN s}

Perms(S) ==
  {s \in [1..Cardinality(S) -> S] : \A x \in S : \E i \in DOMAIN s : s[i] = x}

(***************************************************************************)
(* Rows of the persistence collaborator.                                   *)
(***************************************************************************)
UserRow(u) == [_id |-> u]
EventRow(e) == [_id |-> e, creator |-> dbEvents[e].creator, attendees |-> dbEvents[e].attendees]

\* Model.find(filter): the rows matching {field: {$in: ids}} in the store now.
Find(model, field, ids) ==
  IF model = "User"
    THEN {UserRow(u) : u \in dbUsers \cap Range(ids)}
    ELSE {EventRow(e) : e \in
            {x \in DOMAIN dbEvents :
               CASE field = "_id" -> x \in Range(ids)
                 [] field = "creator" -> dbEvents[x].creator \in Range(ids)
                 [] OTHER -> Range(dbEvents[x].attendees) \cap Range(ids) # {}}}

(***************************************************************************)
(* Values a load() promise settles with.                                   *)
(***************************************************************************)
Null == [tag |-> "null", rows |-> <<>>]
Entity(r) == [tag |-> "entity", rows |-> <<r>>]
List(rs) == [tag |-> "list", rows |-> rs]

NoError == [name |-> "none", at |-> 0]

\* Array.prototype.find(test) || null over the fetched rows
FirstOrNull(matching) == IF matching = <<>> THEN Null ELSE Entity(Head(matching))

\* Position-based mapping (a plausible slip): the i-th row for the i-th key.
ByPosition(keys, rows) ==
  [i \in DOMAIN keys |-> IF i \in DOMAIN rows THEN Entity(rows[i]) ELSE Null]

\* userIds.map(id => users.find(user => user._id.toString() === id) || null)
EntityResults(keys, rows) ==
  [i \in DOMAIN keys |->
     LET Test(r) == r._id = keys[i]
     IN FirstOrNull(SelectSeq(rows, Test))]

\* userIds.map(userId => events.filter(event => event.creator.toString() === userId))
CreatedResults(keys, rows) ==
  [i \in DOMAIN keys |->
     LET Test(r) == r.creator = keys[i]
     IN List(SelectSeq(rows, Test))]

\* a partition in place of membership: an event goes to the first requested
\* user who attends it and to no other
AttendingOnce(keys, rows) ==
  [i \in DOMAIN keys |->
     LET Test(r) == /\ keys[i] \in Range(r.attendees)
                    /\ \A j \in 1..(i - 1) : keys[j] \notin Range(r.attendees)
     IN List(SelectSeq(rows, Test))]

\* userIds.map(userId => events.filter(event => event.attendees.some(a => a.toString() === userId)))
AttendingResults(keys, rows) ==
  [i \in DOMAIN keys |->
     LET Test(r) == keys[i] \in Range(r.attendees)
     IN List(SelectSeq(rows, Test))]

\* an array in place of the Set: every attendee id of every event is kept
KeepDuplicates(s) == s

\* Array.from(allAttendeeIds): the attendee ids of the fetched events, each
\* once, in order of first insertion into the Set.
RECURSIVE Dedup(_)
Dedup(s) ==
  IF s = <<>> THEN <<>>
  ELSE LET init == Dedup(SubSeq(s, 1, Len(s) - 1))
           last == s[Len(s)]
       IN IF last \in Range(init) THEN init ELSE Append(init, last)

RECURSIVE Flatten(_)
Flatten(ss) == IF ss = <<>> THEN <<>> ELSE Head(ss) \o Flatten(Tail(ss))

allAttendeeIds(events) ==
  Dedup(Flatten([i \in DOMAIN events |-> events[i].attendees]))

\* the attendees of each event in the order the user fetch returned them
AttendeesInFetchOrder(keys, events, attendees) ==
  [i \in DOMAIN keys |->
     LET TestE(r) == r._id = keys[i]
         found == SelectSeq(events, TestE)
     IN IF found = <<>> THEN List(<<>>)
        ELSE LET Attends(u) == u._id \in Range(Head(found).attendees)
             IN List(SelectSeq(attendees, Attends))]

\* eventIds.map(eventId => { event = events.find(..); if (!event) return [];
\*   return event.attendees.map(id => attendees.find(..)).filter(u => u !== undefined) })
AttendeesResults(keys, events, attendees) ==
  [i \in DOMAIN keys |->
     LET TestE(r) == r._id = keys[i]
         found == SelectSeq(events, TestE)
     IN IF found = <<>> THEN List(<<>>)
        ELSE LET ids == Head(found).attendees
                 Has(a) == \E j \in DOMAIN attendees : attendees[j]._id = a
                 kept == SelectSeq(ids, Has)
                 UserOf(a) == LET TestU(r) == r._id = a
                              IN Head(SelectSeq(attendees, TestU))
             IN List([j \in DOMAIN kept |-> UserOf(kept[j])])]

(***************************************************************************)
(* The batch function of each loader: its first query, and the values it   *)
(* returns for the requested keys.                                         *)
(***************************************************************************)
\* A slip that queries the first requested id only.
FirstIdOnly(keys) == IF keys = <<>> THEN <<>> ELSE <<ObjectId(keys[1])>>

\* const objectIds = ids.map(id => new Types.ObjectId(id))
objectIds(keys) == [i \in DOMAIN keys |-> ObjectId(keys[i])]

\* new Types.ObjectId(id) throws a BSONError on a string that is no ObjectId
ThrowsOn(keys) == \E i \in DOMAIN keys : ~isValidObjectId(keys[i])

QueryModel(k) == IF k = "userLoader" THEN "User" ELSE "Event"

QueryField(k) ==
  CASE k = "userEventsLoader" -> "creator"
    [] k = "userAttendingEventsLoader" -> "attendees"
    [] OTHER -> "_id"

\* A slip that turns a missing row into a per-key Error value.
MissingIsError(k, keys, rows) ==
  LET vals == IF k \in {"userLoader", "eventLoader"} THEN EntityResults(keys, rows)
              ELSE IF k = "userEventsLoader" THEN CreatedResults(keys, rows)
              ELSE AttendingResults(keys, rows)
  IN [i \in DOMAIN keys |->
        IF vals[i].rows = <<>> THEN [tag |-> "error", rows |-> <<>>] ELSE vals[i]]

\* the array returned by the batch function of the four single-query loaders
BatchValues(k, keys, rows) ==
  CASE k \in {"userLoader", "eventLoader"} -> EntityResults(keys, rows)
    [] k = "userEventsLoader" -> CreatedResults(keys, rows)
    [] OTHER -> AttendingResults(keys, rows)

\* A try/catch around the query that answers a failed find with no rows.
SwallowError(ans) == [ok |-> TRUE, rows |-> IF ans.ok THEN ans.rows ELSE <<>>]

\* await Model.find(...): the rows, or the collaborator's error rethrown
AwaitFind(ans) == ans

\* new DataLoader(batchFn) is constructed with no options: caching is on.
CacheDisabled == FALSE
CacheEnabled == TRUE

(***************************************************************************)
(* State after createLoaders(): an empty cache and no batch.               *)
(***************************************************************************)
InitStore ==
  /\ dbUsers = UserIds
  /\ dbEvents = [e \in EventIds |->
                   IF e = "e1" THEN [creator |-> "u1", attendees |-> <<"u1", "u2">>,
                                     title |-> "title", createdAt |-> 1, __v |-> 0]
                   ELSE [creator |-> "u2", attendees |-> <<"u2", "u3">>,
                         title |-> "title", createdAt |-> 2, __v |-> 0]]
  /\ writes = 0

createLoaders ==
  /\ cache = <<>>
  /\ batch = 0
  /\ batches = <<>>
  /\ calls = <<>>
  /\ fetches = <<>>

\* the server has started: no token issued, no operation received
InitServer ==
  /\ clock = 0
  /\ issued = <<>>
  /\ contexts = <<>>
  /\ created = 0
  /\ instCache = <<>>
  /\ ctxLoads = <<>>
  /\ invocations = <<>>
  /\ gateCalls = <<>>

\* no operation has run yet: nothing published, no paginated query made, no
\* mutation started and no subscription opened
InitApp ==
  /\ dbProfiles = [u \in UserIds |-> "name"]
  /\ published = <<>>
  /\ pages = <<>>
  /\ muts = <<>>
  /\ subs = <<>>
  /\ delivered = <<>>

InitLoader ==
  /\ kind \in LoaderKinds
  /\ InitStore
  /\ createLoaders
  /\ InitServer
  /\ InitApp

\* A batch whose dispatch is never scheduled.
UnscheduledBatch == [keys |-> <<>>, st |-> "idle", values |-> <<>>, error |-> NoError,
                     events |-> <<>>, execs |-> 0]

\* new batch of DataLoader.load: empty, its dispatch scheduled for this tick
NewBatch == [keys |-> <<>>, st |-> "queued", values |-> <<>>, error |-> NoError,
             events |-> <<>>, execs |-> 0]

Fetch(b, model, field, ids) ==
  [batch |-> b, model |-> model, field |-> field, ids |-> ids, st |-> "pending",
   rows |-> <<>>]

\* A load that opens a new batch only once the current one has settled, and so
\* joins a batch whose fetch is still in flight.
JoinInFlight(k) ==
  /\ Len(calls) < MaxLoads
  /\ LET fresh == batch = 0 \/ batches[batch].st \in {"done", "failed"}
         cur == IF fresh THEN Len(batches) + 1 ELSE batch
         bs == IF fresh THEN Append(batches, NewBatch) ELSE batches
         hit == CacheEnabled /\ k \in DOMAIN cache
         turn == Cardinality({b \in DOMAIN batches : batches[b].st # "queued"})
         idx == Len(bs[cur].keys) + 1
     IN /\ batch' = cur
        /\ IF hit
             THEN /\ batches' = bs
                  /\ cache' = cache
                  /\ calls' = Append(calls, [key |-> k, ref |-> cache[k], via |-> cur, hit |-> TRUE, turn |-> turn])
             ELSE /\ batches' = [bs EXCEPT ![cur].keys = Append(@, k)]
                  /\ cache' = [x \in DOMAIN cache \cup {k} |->
                                 IF x = k THEN <<cur, idx>> ELSE cache[x]]
                  /\ calls' = Append(calls, [key |-> k, ref |-> <<cur, idx>>, via |-> cur, hit |-> FALSE, turn |-> turn])
  /\ UNCHANGED <<kind, dbUsers, dbEvents, fetches, writes>>
  /\ UNCHANGED <<serverVars, appVars, liveVars>>

\* DataLoader.load(key): join the current batch (or open one and schedule its
\* dispatch); a cached key returns its cached promise, any other key is
\* queued and its promise cached.
load(k) ==
  /\ Len(calls) < MaxLoads
  /\ LET fresh == batch = 0 \/ batches[batch].st # "queued"
         cur == IF fresh THEN Len(batches) + 1 ELSE batch
         bs == IF fresh THEN Append(batches, NewBatch) ELSE batches
         hit == CacheEnabled /\ k \in DOMAIN cache
         turn == Cardinality({b \in DOMAIN batches : batches[b].st # "queued"})
         idx == Len(bs[cur].keys) + 1
     IN /\ batch' = cur
        /\ IF hit
             THEN /\ batches' = bs
                  /\ cache' = cache
                  /\ calls' = Append(calls, [key |-> k, ref |-> cache[k], via |-> cur, hit |-> TRUE, turn |-> turn])
             ELSE /\ batches' = [bs EXCEPT ![cur].keys = Append(@, k)]
                  /\ cache' = IF CacheEnabled
                                 THEN [x \in DOMAIN cache \cup {k} |->
                                         IF x = k THEN <<cur, idx>> ELSE cache[x]]
                                 ELSE cache
                  /\ calls' = Append(calls, [key |-> k, ref |-> <<cur, idx>>, via |-> cur, hit |-> FALSE, turn |-> turn])
  /\ UNCHANGED <<kind, dbUsers, dbEvents, fetches, writes>>
  /\ UNCHANGED <<serverVars, appVars, liveVars>>

\* failedDispatch: every key of the batch is cleared from the cache and every
\* pending promise of the batch rejects with the error.
ClearKeys(keys) == [x \in DOMAIN cache \ Range(keys) |-> cache[x]]

\* dispatchBatch: runs once per batch, on the tick after the batch was opened.
\* A batch of cache hits only resolves them; otherwise the batch function runs
\* up to its first await.  new Types.ObjectId(id) throwing there rejects the
\* batch function at once: the batch fails within the same tick, before any
\* other code can call load.
dispatchBatch ==
  /\ batch # 0
  /\ batches[batch].st = "queued"
  /\ LET b == batches[batch]
     IN IF b.keys = <<>>
          THEN /\ batches' = [batches EXCEPT ![batch].st = "done"]
               /\ UNCHANGED <<fetches, cache>>
          ELSE IF ThrowsOn(b.keys)
            THEN /\ batches' = [batches EXCEPT ![batch].st = "failed",
                                                ![batch].execs = @ + 1,
                                                ![batch].error = [name |-> "BSONError", at |-> batch]]
                 /\ cache' = ClearKeys(b.keys)
                 /\ UNCHANGED fetches
            ELSE /\ batches' = [batches EXCEPT ![batch].st = "fetch1", ![batch].execs = @ + 1]
                 /\ fetches' = Append(fetches,
                                  Fetch(batch, QueryModel(kind), QueryField(kind), objectIds(b.keys)))
                 /\ UNCHANGED cache
  /\ UNCHANGED <<kind, dbUsers, dbEvents, batch, calls, writes>>
  /\ UNCHANGED <<serverVars, appVars, liveVars>>

\* The answers the collaborator can give to a pending find: the matching rows
\* of the store, in any order, or an error.
Answers(f) ==
  {[ok |-> TRUE, rows |-> r] : r \in Perms(Find(f.model, f.field, f.ids))}
    \cup {[ok |-> FALSE, rows |-> <<>>]}

\* The collaborator answers find number n and the batch function resumes.  The
\* answer is an I/O event: it is handled only once the dispatch scheduled for
\* the current tick has run, so never while a batch is still queued.
FindSettles(n) ==
  /\ fetches[n].st = "pending"
  /\ batch = 0 \/ batches[batch].st # "queued"
  /\ \E ans \in Answers(fetches[n]) :
       LET out == AwaitFind(ans)
           b == fetches[n].batch
           keys == batches[b].keys
           answered == [fetches EXCEPT ![n].st = IF ans.ok THEN "ok" ELSE "error",
                                       ![n].rows = ans.rows]
       IN IF ~out.ok
            THEN \* the async batch function rejects: failedDispatch
                 /\ fetches' = answered
                 /\ batches' = [batches EXCEPT ![b].st = "failed",
                                                ![b].error = [name |-> "MongoError", at |-> n]]
                 /\ cache' = ClearKeys(keys)
            ELSE IF kind # "eventAttendeesLoader"
              THEN /\ fetches' = answered
                   /\ batches' = [batches EXCEPT ![b].st = "done",
                                                  ![b].values = BatchValues(kind, keys, out.rows)]
                   /\ cache' = cache
              ELSE IF batches[b].st = "fetch1"
                THEN \* second phase: fetch the users of all attendee ids
                     /\ fetches' = Append(answered,
                                      Fetch(b, "User", "_id", objectIds(allAttendeeIds(out.rows))))
                     /\ batches' = [batches EXCEPT ![b].st = "fetch2", ![b].events = out.rows]
                     /\ cache' = cache
                ELSE /\ fetches' = answered
                     /\ batches' = [batches EXCEPT ![b].st = "done",
                                       ![b].values = AttendeesResults(keys, batches[b].events, out.rows)]
                     /\ cache' = cache
  /\ UNCHANGED <<kind, dbUsers, dbEvents, batch, calls, writes>>
  /\ UNCHANGED <<serverVars, appVars, liveVars>>

(***************************************************************************)
(* Changes other requests make to the store while a loader is alive.       *)
(***************************************************************************)
\* deleteUser: User.findByIdAndDelete(user.id)
StoreDeleteUser(u) ==
  /\ writes < MaxWrites
  /\ u \in dbUsers
  /\ dbUsers' = dbUsers \ {u}
  /\ writes' = writes + 1
  /\ UNCHANGED <<kind, dbEvents, cache, batch, batches, calls, fetches>>
  /\ UNCHANGED <<serverVars, appVars, liveVars>>

\* deleteEvent: Event.findByIdAndDelete(id)
StoreDeleteEvent(e) ==
  /\ writes < MaxWrites
  /\ e \in DOMAIN dbEvents
  /\ dbEvents' = [x \in DOMAIN dbEvents \ {e} |-> dbEvents[x]]
  /\ writes' = writes + 1
  /\ UNCHANGED <<kind, dbUsers, cache, batch, batches, calls, fetches>>
  /\ UNCHANGED <<serverVars, appVars, liveVars>>

\* attendEvent: event.attendees.push(userId); event.save()
StoreAttend(e, u) ==
  /\ writes < MaxWrites
  /\ e \in DOMAIN dbEvents
  /\ u \in dbUsers
  /\ u \notin Range(dbEvents[e].attendees)
  /\ dbEvents' = [dbEvents EXCEPT ![e].attendees = Append(@, u), ![e].__v = @ + 1]
  /\ writes' = writes + 1
  /\ UNCHANGED <<kind, dbUsers, cache, batch, batches, calls, fetches>>
  /\ UNCHANGED <<serverVars, appVars, liveVars>>

NextLoader ==
  \/ \E k \in KeysOf(kind) : load(k)
  \/ dispatchBatch
  \/ \E n \in DOMAIN fetches : FindSettles(n)
  \/ StoreDeleteUser("u2")
  \/ StoreDeleteEvent("e2")
  \/ StoreAttend("e1", "u3")

SpecLoader == InitLoader /\ [][NextLoader]_vars

\* The dispatch scheduled by load (enqueuePostPromiseJob) always runs, and the
\* persistence collaborator keeps answering while a find is pending: as only
\* finitely many finds are sent, every find is eventually answered.
LoaderFairness ==
  /\ WF_vars(dispatchBatch)
  /\ WF_vars(\E n \in DOMAIN fetches : FindSettles(n))

SpecLoaderFair == InitLoader /\ [][NextLoader]_vars /\ LoaderFairness

(***************************************************************************)
(* Observations on the loader.                                             *)
(***************************************************************************)
Settled(b) == batches[b].st \in {"done", "failed"}

FetchesOf(b) == {n \in DOMAIN fetches : fetches[n].batch = b}

\* the state of the promise load() cached for the i-th key of batch b
PromiseOutcome(ref) ==
  LET b == batches[ref[1]]
  IN CASE b.st = "done" /\ b.values[ref[2]].tag # "error" ->
            [st |-> "fulfilled", value |-> b.values[ref[2]], error |-> NoError]
       [] b.st = "done" ->
            [st |-> "rejected", value |-> Null, error |-> [name |-> "Error", at |-> ref[2]]]
       [] b.st = "failed" ->
            [st |-> "rejected", value |-> Null, error |-> b.error]
       [] OTHER -> [st |-> "pending", value |-> Null, error |-> NoError]

\* what the caller of load() number c has received: a cache hit is handed its
\* cached promise when the batch it was queued behind resolves its cache hits
CallOutcome(c) ==
  IF Settled(calls[c].via) THEN PromiseOutcome(calls[c].ref)
  ELSE [st |-> "pending", value |-> Null, error |-> NoError]

SingleQuery == kind # "eventAttendeesLoader"

(***************************************************************************)
(* C1: the load calls issued for distinct keys within one scheduling turn  *)
(* join one batch; that batch runs the batch function once and, for the    *)
(* four single-query loaders, issues exactly one find, which queries the   *)
(* union of the requested keys.                                            *)
(***************************************************************************)
C1_OneFetchPerBatch ==
  /\ \A i, j \in DOMAIN calls :
        calls[i].turn = calls[j].turn /\ ~calls[i].hit /\ ~calls[j].hit
          => calls[i].ref[1] = calls[j].ref[1]
  /\ \A b \in DOMAIN batches :
        /\ batches[b].execs <= 1
        /\ (SingleQuery /\ batches[b].st # "queued" /\ batches[b].keys # <<>>
              /\ ~ThrowsOn(batches[b].keys))
             => /\ batches[b].execs = 1
                /\ Cardinality(FetchesOf(b)) = 1
                /\ \A n \in FetchesOf(b) :
                     /\ Range(fetches[n].ids) = {ObjectId(k) : k \in Range(batches[b].keys)}
                     /\ {calls[c].key : c \in {x \in DOMAIN calls : calls[x].ref[1] = b}}
                          = Range(batches[b].keys)

C1_Witness ==
  /\ SingleQuery
  /\ \E b \in DOMAIN batches :
       /\ Len(batches[b].keys) >= 2
       /\ batches[b].keys[1] # batches[b].keys[2]
       /\ batches[b].st = "done"
       /\ Cardinality(FetchesOf(b)) = 1

(***************************************************************************)
(* C2: two load(k) calls on one instance, issued in the same turn or the   *)
(* second after the first has resolved, receive equal results, and at most *)
(* one successful fetch of the instance's lifetime includes k (a fetch is   *)
(* one run of the batch function: one find on the single-query loaders,    *)
(* the pair of finds on eventAttendeesLoader).                             *)
(***************************************************************************)
C2_CacheIdempotent ==
  /\ \A i, j \in DOMAIN calls :
        (/\ i < j
         /\ calls[i].key = calls[j].key
         /\ CallOutcome(i).st # "pending"
         /\ CallOutcome(j).st # "pending"
         /\ calls[i].turn = calls[j].turn \/ CallOutcome(i).st = "fulfilled")
          => CallOutcome(i) = CallOutcome(j)
  /\ \A k \in Keys :
        /\ Cardinality({b \in DOMAIN batches :
                          batches[b].st = "done" /\ k \in Range(batches[b].keys)}) <= 1
        /\ SingleQuery =>
             Cardinality({n \in DOMAIN fetches :
                            /\ fetches[n].st = "ok"
                            /\ k \in Range(batches[fetches[n].batch].keys)}) <= 1
  /\ \A b \in DOMAIN batches :
        \A i, j \in DOMAIN batches[b].keys :
          batches[b].keys[i] = batches[b].keys[j] => i = j

\* the second call comes in a later turn, after the store has changed, and
\* still receives the value the first call received
C2_Witness ==
  \E i, j \in DOMAIN calls :
    /\ i < j
    /\ calls[i].key = calls[j].key
    /\ calls[i].turn < calls[j].turn
    /\ calls[j].hit
    /\ CallOutcome(i).st = "fulfilled"
    /\ CallOutcome(j).st = "fulfilled"
    /\ writes > 0

(***************************************************************************)
(* C3: on userLoader and eventLoader the i-th key of a batch receives the  *)
(* fetched row whose id is that key, or null when the answer holds no such *)
(* row, whatever the order of the rows in the answer.                      *)
(***************************************************************************)
EntityKind == kind \in {"userLoader", "eventLoader"}

C3_OrderPreserved ==
  EntityKind =>
    \A b \in DOMAIN batches :
      batches[b].st = "done" =>
        \A n \in FetchesOf(b) : \A i \in DOMAIN batches[b].keys :
          LET k == batches[b].keys[i]
              mine == {r \in Range(fetches[n].rows) : r._id = k}
          IN /\ mine # {} => batches[b].values[i].tag = "entity"
                              /\ batches[b].values[i].rows[1] \in mine
             /\ mine = {} => batches[b].values[i] = Null
             /\ \A c \in DOMAIN calls :
                  calls[c].ref = <<b, i>> /\ CallOutcome(c).st # "pending"
                    => CallOutcome(c).value = batches[b].values[i]

\* two keys answered by two rows that come back in the opposite order
C3_Witness ==
  /\ EntityKind
  /\ \E b \in DOMAIN batches, n \in DOMAIN fetches :
       /\ batches[b].st = "done"
       /\ fetches[n].batch = b
       /\ Len(batches[b].keys) = 2
       /\ Len(fetches[n].rows) = 2
       /\ fetches[n].rows[1]._id = batches[b].keys[2]
       /\ fetches[n].rows[2]._id = batches[b].keys[1]

(***************************************************************************)
(* C4: a well-formed key that matches nothing never makes a load reject:   *)
(* when the keys of a batch are well formed and its finds succeed, every   *)
(* key resolves - to null (entity loaders) or to an empty list (list       *)
(* loaders) when nothing matches it, and to its rows otherwise.            *)
(***************************************************************************)
Matches(k, r) ==
  CASE kind = "userEventsLoader" -> r.creator = k
    [] kind = "userAttendingEventsLoader" -> k \in Range(r.attendees)
    [] OTHER -> r._id = k

FirstFetch(b) == CHOOSE n \in FetchesOf(b) : \A m \in FetchesOf(b) : n <= m

Absent(b, i) ==
  \A r \in Range(fetches[FirstFetch(b)].rows) : ~Matches(batches[b].keys[i], r)

C4_AbsenceIsValue ==
  \A b \in DOMAIN batches :
    (/\ Settled(b)
     /\ batches[b].keys # <<>>
     /\ ~ThrowsOn(batches[b].keys)
     /\ \A n \in FetchesOf(b) : fetches[n].st = "ok")
      => /\ batches[b].st = "done"
         /\ \A i \in DOMAIN batches[b].keys :
              /\ PromiseOutcome(<<b, i>>).st = "fulfilled"
              /\ Absent(b, i) =>
                   batches[b].values[i] = IF EntityKind THEN Null ELSE List(<<>>)
              /\ ~Absent(b, i) /\ kind # "eventAttendeesLoader" =>
                   batches[b].values[i].rows # <<>>

\* an absent key and a present key resolved by the same batch
C4_Witness ==
  \E b \in DOMAIN batches :
    /\ batches[b].st = "done"
    /\ \E i, j \in DOMAIN batches[b].keys :
         /\ Absent(b, i)
         /\ batches[b].values[i].rows = <<>>
         /\ ~Absent(b, j)
         /\ batches[b].values[j].rows # <<>>

(***************************************************************************)
(* C5: when a find of a batch fails, every load of that batch rejects with *)
(* that one error and no key of the batch stays in the cache: a load       *)
(* issued afterwards is never answered from a rejected cache entry but     *)
(* joins a batch that fetches again.                                       *)
(***************************************************************************)
C5_Rejected ==
  \A n \in DOMAIN fetches :
    fetches[n].st = "error" =>
      LET b == fetches[n].batch
      IN /\ batches[b].st = "failed"
         /\ batches[b].error = [name |-> "MongoError", at |-> n]
         /\ \A c \in DOMAIN calls :
              calls[c].ref[1] = b /\ Settled(calls[c].via)
                => /\ CallOutcome(c).st = "rejected"
                   /\ CallOutcome(c).error = batches[b].error
         /\ \A k \in DOMAIN cache : cache[k][1] # b

C5_NoCachedRejection ==
  Len(calls') = Len(calls) + 1 =>
    LET c == calls'[Len(calls')]
    IN /\ c.hit => batches[c.ref[1]].st # "failed"
       /\ ~c.hit => c.key \in Range(batches'[c.via].keys) /\ batches'[c.via].st = "queued"

C5_FailureNotMemoized == []C5_Rejected /\ [][C5_NoCachedRejection]_vars

\* a key of a failed batch is loaded again and fetched again
C5_Witness ==
  \E b, b2 \in DOMAIN batches, n \in DOMAIN fetches :
    /\ fetches[n].st = "error"
    /\ fetches[n].batch = b
    /\ b2 > b
    /\ Range(batches[b].keys) \cap Range(batches[b2].keys) # {}
    /\ FetchesOf(b2) # {}

(***************************************************************************)
(* Token utility (utils/auth.ts).  A credential string is a sequence of    *)
(* parts: the literal "Bearer " or a token body - a signed JWT or text     *)
(* that is no JWT.  The empty string is the empty sequence.                *)
(***************************************************************************)
ExpiresIn == 86400

Secret == "config.jwt.secret"

BearerPrefix == [t |-> "Bearer ", id |-> "", email |-> "", iat |-> 0, exp |-> 0, key |-> ""]
Garbage == [t |-> "garbage", id |-> "", email |-> "", iat |-> 0, exp |-> 0, key |-> ""]
Jwt(id, email, iat, exp, key) ==
  [t |-> "jwt", id |-> id, email |-> email, iat |-> iat, exp |-> exp, key |-> key]

Accounts == {[id |-> "u1", email |-> "a@b.com"], [id |-> "u2", email |-> "c@d.com"]}

\* a token issued without the 1-day limit honoured (expiresIn: '2d')
generateTokenTwoDays(user, now) ==
  <<Jwt(user.id, user.email, now, now + 2 * ExpiresIn, Secret)>>

\* jwt.sign({id, email}, config.jwt.secret, {expiresIn: '1d'})
generateToken(user, now) ==
  <<Jwt(user.id, user.email, now, now + ExpiresIn, Secret)>>

NoIdentity == [ok |-> FALSE, id |-> "", email |-> "", iat |-> 0, exp |-> 0]
Identity(p) == [ok |-> TRUE, id |-> p.id, email |-> p.email, iat |-> p.iat, exp |-> p.exp]

\* jwt.decode in place of jwt.verify: the payload of any JWT, unchecked
jwtDecode(token, now) ==
  IF Len(token) = 1 /\ token[1].t = "jwt"
    THEN [threw |-> FALSE, payload |-> Identity(token[1])]
    ELSE [threw |-> TRUE, payload |-> NoIdentity]

\* jwt.verify(token, secret): the decoded payload, or a throw for an empty or
\* malformed string, a wrong signature, or an expired token
jwtVerify(token, now) ==
  IF /\ Len(token) = 1
     /\ token[1].t = "jwt"
     /\ token[1].key = Secret
     /\ now < token[1].exp
    THEN [threw |-> FALSE, payload |-> Identity(token[1])]
    ELSE [threw |-> TRUE, payload |-> NoIdentity]

\* no prefix handling at all
KeepPrefix(token) == token

\* if (token.startsWith('Bearer ')) token = token.slice(7, token.length)
StripBearer(token) ==
  IF token # <<>> /\ token[1].t = "Bearer " THEN Tail(token) ELSE token

\* getUserFromToken(token): the identity or null, whether jwt.verify was
\* called, and whether an exception escaped
getUserFromToken(token, now) ==
  IF token = <<>>
    THEN [user |-> NoIdentity, verified |-> FALSE, threw |-> FALSE]
    ELSE LET v == jwtVerify(StripBearer(token), now)
         IN IF v.threw
              THEN [user |-> NoIdentity, verified |-> TRUE, threw |-> FALSE]
              ELSE [user |-> v.payload, verified |-> TRUE, threw |-> FALSE]

(***************************************************************************)
(* Authorization gate (utils/auth.ts).                                     *)
(***************************************************************************)
AuthenticationRequired == [kind |-> "throw", v |-> "Authentication required (UNAUTHENTICATED)"]

\* a wrapper that delegates without looking at context.user
NoAuthCheck(user, given, out) ==
  [times |-> 1, passed |-> given, outcome |-> out]

\* a wrapper that calls the resolver but forgets to return its result
NoReturn(user, given, out) ==
  IF ~user.ok
    THEN [times |-> 0, passed |-> given, outcome |-> AuthenticationRequired]
    ELSE [times |-> 1, passed |-> given,
          outcome |-> IF out.kind = "return" THEN [kind |-> "return", v |-> "undefined"] ELSE out]

\* requireAuth(resolver)(parent, args, context, info) where the resolver, if
\* called, ends with `out`: how often the resolver is called, with which
\* arguments, and how the wrapper ends
requireAuth(user, given, out) ==
  IF ~user.ok
    THEN [times |-> 0, passed |-> given, outcome |-> AuthenticationRequired]
    ELSE [times |-> 1, passed |-> given, outcome |-> out]

(***************************************************************************)
(* Context construction (index.ts) and the operations of the server.       *)
(***************************************************************************)
ClockPoints == {0, ExpiresIn - 1, ExpiresIn}

Forged == Jwt("u1", "a@b.com", 0, 2 * ExpiresIn, "another secret")

TokenBodies == {<<>>, <<Garbage>>, <<Forged>>} \cup {issued[i].token : i \in DOMAIN issued}

\* the credentials a client may send: a body, alone or behind "Bearer "
Headers == TokenBodies \cup {<<BearerPrefix>> \o b : b \in TokenBodies}

\* one loader set hoisted out of the context function and shared
SharedLoaders(n) == 1

\* const loaders = createLoaders() inside the context function: the n+1-th
\* call returns a set of loaders that did not exist before
FreshLoaders(n) == n + 1

\* time passes
Tick(t) ==
  /\ t \in ClockPoints
  /\ t > clock
  /\ clock' = t
  /\ UNCHANGED <<issued, contexts, created, instCache, ctxLoads, invocations, gateCalls>>
  /\ UNCHANGED <<loaderVars, appVars, liveVars>>

\* login / createUser: generateToken({id, email})
IssueToken(acc) ==
  /\ Len(issued) < MaxTokens
  /\ issued' = Append(issued, [acc |-> acc, at |-> clock, token |-> generateToken(acc, clock)])
  /\ UNCHANGED <<clock, contexts, created, instCache, ctxLoads, invocations, gateCalls>>
  /\ UNCHANGED <<loaderVars, appVars, liveVars>>

\* the context function of expressMiddleware ("http") and of useServer ("ws"):
\* user = getUserFromToken(token); loaders = createLoaders()
context(transport, header) ==
  /\ Len(contexts) < MaxOps
  /\ LET r == getUserFromToken(header, clock)
         inst == FreshLoaders(created)
     IN /\ contexts' = Append(contexts,
                          [transport |-> transport, header |-> header, at |-> clock,
                           user |-> r.user, verified |-> r.verified, threw |-> r.threw,
                           loaders |-> inst])
        /\ instCache' = IF inst \in DOMAIN instCache THEN instCache
                         ELSE Append(instCache, <<>>)
  /\ created' = created + 1
  /\ UNCHANGED <<clock, issued, ctxLoads, invocations, gateCalls>>
  /\ UNCHANGED <<loaderVars, appVars, liveVars>>

\* what a load of one key resolves to against the store as it is now
SoloValues(key) ==
  IF kind = "eventAttendeesLoader"
    THEN UNION {{AttendeesResults(<<key>>, ev, us)[1] :
                   us \in Perms(Find("User", "_id", objectIds(allAttendeeIds(ev))))} :
                ev \in Perms(Find("Event", "_id", objectIds(<<key>>)))}
    ELSE {BatchValues(kind, <<key>>, rows)[1] :
            rows \in Perms(Find(QueryModel(kind), QueryField(kind), objectIds(<<key>>)))}

Rejected == [tag |-> "error", rows |-> <<>>]

\* a resolver of operation op loads a key through context.loaders: a cached
\* key is answered from that loader's cache, any other key is fetched and,
\* unless the fetch fails, cached
CtxLoad(op, key) ==
  /\ Len(ctxLoads) < MaxCtxLoads
  /\ LET inst == contexts[op].loaders
     IN IF key \in DOMAIN instCache[inst]
          THEN /\ ctxLoads' = Append(ctxLoads,
                                [op |-> op, inst |-> inst, key |-> key, hit |-> TRUE,
                                 value |-> instCache[inst][key]])
               /\ UNCHANGED instCache
          ELSE \E v \in (IF isValidObjectId(key) THEN SoloValues(key) ELSE {}) \cup {Rejected} :
                 /\ ctxLoads' = Append(ctxLoads,
                                  [op |-> op, inst |-> inst, key |-> key, hit |-> FALSE,
                                   value |-> v])
                 /\ instCache' =
                      IF v = Rejected THEN instCache
                      ELSE [instCache EXCEPT ![inst] =
                              [x \in DOMAIN @ \cup {key} |-> IF x = key THEN v ELSE @[x]]]
  /\ UNCHANGED <<clock, issued, contexts, created, invocations, gateCalls>>
  /\ UNCHANGED <<loaderVars, appVars, liveVars>>

Resolvers == {"me", "createEvent"}
ArgsSet == {"args1"}
Outcomes == {[kind |-> "return", v |-> "result"], [kind |-> "throw", v |-> "resolver error"]}

\* a field guarded by requireAuth is resolved within operation op
GuardedCall(op, resolver, args, out) ==
  /\ Len(gateCalls) < MaxGateCalls
  /\ LET given == [parent |-> "parent", args |-> args, context |-> op, info |-> resolver]
         g == requireAuth(contexts[op].user, given, out)
     IN /\ invocations' = IF g.times = 0 THEN invocations
                           ELSE Append(invocations, [resolver |-> resolver, passed |-> g.passed])
        /\ gateCalls' = Append(gateCalls,
                           [resolver |-> resolver, given |-> given, would |-> out,
                            outcome |-> g.outcome,
                            inv |-> IF g.times = 0 THEN 0 ELSE Len(invocations) + 1])
  /\ UNCHANGED <<clock, issued, contexts, created, instCache, ctxLoads>>
  /\ UNCHANGED <<loaderVars, appVars, liveVars>>

InitCtx ==
  /\ kind \in LoaderKinds
  /\ InitStore
  /\ createLoaders
  /\ InitServer
  /\ InitApp

NextCtx ==
  \/ \E tr \in {"http", "ws"} : context(tr, <<>>)
  \/ \E op \in DOMAIN contexts, k \in KeysOf(kind) \cap {"u1", "u2", "e2", "zz"} :
       CtxLoad(op, k)
  \/ StoreDeleteUser("u2")
  \/ StoreDeleteEvent("e2")

SpecCtx == InitCtx /\ [][NextCtx]_vars

InitAuth ==
  /\ kind = "userLoader"
  /\ InitStore
  /\ createLoaders
  /\ InitServer
  /\ InitApp

NextToken ==
  \/ \E t \in ClockPoints : Tick(t)
  \/ \E acc \in Accounts : IssueToken(acc)
  \/ \E tr \in {"http", "ws"}, h \in Headers : context(tr, h)

SpecToken == InitAuth /\ [][NextToken]_vars

NextGate ==
  \/ \E acc \in Accounts : IssueToken(acc)
  \/ \E h \in {<<>>} \cup {<<BearerPrefix>> \o issued[i].token : i \in DOMAIN issued} :
       \E tr \in {"http", "ws"} : context(tr, h)
  \/ \E op \in DOMAIN contexts, r \in Resolvers, a \in ArgsSet, out \in Outcomes :
       GuardedCall(op, r, a, out)

SpecGate == InitAuth /\ [][NextGate]_vars

(***************************************************************************)
(* The resolvers wrapped by requireAuth (graphql/resolvers): what each     *)
(* does to the store, what it publishes and how it ends, for a caller      *)
(* `user`, an argument `arg` and a persistence call that fails (`fail`     *)
(* names the first, second or third awaited call of the body, or none).    *)
(***************************************************************************)
GuardedResolvers ==
  {"me", "myEvents", "myAttendingEvents", "createEvent", "updateEvent",
   "deleteEvent", "attendEvent", "cancelAttendance", "updateUser", "deleteUser"}

Failures == {"none", "first", "second", "third"}

Returns(v) == [kind |-> "return", v |-> v]
Throws(msg) == [kind |-> "throw", v |-> msg]

\* the body ends without having written or published anything
NoEffect(out) ==
  [users |-> dbUsers, profiles |-> dbProfiles, events |-> dbEvents, pub |-> <<>>, out |-> out]

EventsEffect(events, pub, out) ==
  [users |-> dbUsers, profiles |-> dbProfiles, events |-> events, pub |-> pub, out |-> out]

Message(topic, eventId, by) == [topic |-> topic, eventId |-> eventId, by |-> by]

\* the id the store gives to the next created event
NewEventId == NewEventIds[writes + 1]

\* new Event({...eventInput, creator: user.id, attendees: []}).save()
createEvent(user, arg, fail) ==
  IF fail = "first" THEN NoEffect(Throws("Error creating event"))
  ELSE EventsEffect(
         [e \in DOMAIN dbEvents \cup {NewEventId} |->
            IF e = NewEventId
              THEN [creator |-> user.id, attendees |-> <<>>, title |-> arg,
                    createdAt |-> 100 + writes, __v |-> 0]
              ELSE dbEvents[e]],
         <<Message("EVENT_CREATED", NewEventId, user.id)>>,
         Returns(NewEventId))

\* findEventOrThrow(id): 'Event not found' for a malformed id or no such
\* event; a rejected findById is no GraphQLError
findEventOrThrow(id, fail) ==
  IF ~isValidObjectId(id) THEN Throws("Event not found")
  ELSE IF fail = "first" THEN Throws("findById rejected")
  ELSE IF ObjectId(id) \notin DOMAIN dbEvents THEN Throws("Event not found")
  ELSE Returns(ObjectId(id))

\* catch (err): a GraphQLError is rethrown, anything else is replaced
Rethrow(err, generic) ==
  IF err.v = "findById rejected" THEN Throws(generic) ELSE err

\* A creator check that lets every authenticated caller through.
AnyoneIsCreator(e, userId) == TRUE

\* checkIsCreator(event, user.id)
checkIsCreator(e, userId) == dbEvents[e].creator = userId

updateEvent(user, id, arg, fail) ==
  LET found == findEventOrThrow(id, fail)
      e == found.v
  IN IF found.kind = "throw" THEN NoEffect(Rethrow(found, "Error updating event"))
     ELSE IF ~checkIsCreator(e, user.id)
       THEN NoEffect(Throws("Not authorized to perform this action"))
     ELSE IF fail = "second" THEN NoEffect(Throws("Error updating event"))
     ELSE EventsEffect([dbEvents EXCEPT ![e].title = arg],
                       <<Message("EVENT_UPDATED", e, user.id)>>, Returns(e))

deleteEvent(user, id, fail) ==
  LET found == findEventOrThrow(id, fail)
      e == found.v
  IN IF found.kind = "throw" THEN NoEffect(Rethrow(found, "Error deleting event"))
     ELSE IF ~checkIsCreator(e, user.id)
       THEN NoEffect(Throws("Not authorized to perform this action"))
     ELSE IF fail = "second" THEN NoEffect(Throws("Error deleting event"))
     ELSE EventsEffect([x \in DOMAIN dbEvents \ {e} |-> dbEvents[x]],
                       <<Message("EVENT_DELETED", id, user.id)>>, Returns("true"))

\* event.attendees.push(user.id); await event.save(); then the user is loaded
\* and the message published: a failed load leaves the saved list in place
attendEvent(user, id, fail) ==
  LET found == findEventOrThrow(id, fail)
      e == found.v
      saved == [dbEvents EXCEPT ![e].attendees = Append(@, user.id), ![e].__v = @ + 1]
  IN IF found.kind = "throw" THEN NoEffect(Rethrow(found, "Error attending event"))
     ELSE IF user.id \in Range(dbEvents[e].attendees)
       THEN NoEffect(Throws("Already attending this event"))
     ELSE IF fail = "second" THEN NoEffect(Throws("Error attending event"))
     ELSE IF fail = "third" THEN EventsEffect(saved, <<>>, Throws("Error attending event"))
     ELSE EventsEffect(saved, <<Message("USER_JOINED_EVENT", id, user.id)>>, Returns(e))

\* the user is loaded first, then the filtered list is saved
cancelAttendance(user, id, fail) ==
  LET found == findEventOrThrow(id, fail)
      e == found.v
      Other(a) == a # user.id
  IN IF found.kind = "throw" THEN NoEffect(Rethrow(found, "Error canceling attendance"))
     ELSE IF user.id \notin Range(dbEvents[e].attendees)
       THEN NoEffect(Throws("Not attending this event"))
     ELSE IF fail \in {"second", "third"} THEN NoEffect(Throws("Error canceling attendance"))
     ELSE EventsEffect([dbEvents EXCEPT ![e].attendees = SelectSeq(@, Other), ![e].__v = @ + 1],
                       <<Message("USER_LEFT_EVENT", id, user.id)>>, Returns(e))

\* User.findByIdAndUpdate(user.id, updateData, {new: true})
updateUser(user, arg, fail) ==
  IF fail = "first" THEN NoEffect(Throws("Error updating user"))
  ELSE IF user.id \notin dbUsers THEN NoEffect(Throws("User not found"))
  ELSE [users |-> dbUsers, profiles |-> [dbProfiles EXCEPT ![user.id] = arg],
        events |-> dbEvents, pub |-> <<>>, out |-> Returns(user.id)]

\* User.findByIdAndDelete(user.id)
deleteUser(user, fail) ==
  IF fail = "first" THEN NoEffect(Throws("Error deleting user"))
  ELSE IF user.id \notin dbUsers THEN NoEffect(Throws("User not found"))
  ELSE [users |-> dbUsers \ {user.id}, profiles |-> dbProfiles,
        events |-> dbEvents, pub |-> <<>>, out |-> Returns("true")]

\* me: loaders.userLoader.load(user.id); every error, 'User not found'
\* included, is replaced by 'Error fetching user'
me(user, fail) ==
  IF fail = "first" \/ user.id \notin dbUsers
    THEN NoEffect(Throws("Error fetching user"))
    ELSE NoEffect(Returns(user.id))

\* myEvents / myAttendingEvents: paginateEvents(filter, sort, pagination)
myEvents(user, fail) ==
  IF fail \in {"first", "second"} THEN NoEffect(Throws("Error fetching your events"))
  ELSE NoEffect(Returns("connection"))

myAttendingEvents(user, fail) ==
  IF fail \in {"first", "second"}
    THEN NoEffect(Throws("Error fetching events you are attending"))
    ELSE NoEffect(Returns("connection"))

Resolve(name, user, arg, fail) ==
  CASE name = "me" -> me(user, fail)
    [] name = "myEvents" -> myEvents(user, fail)
    [] name = "myAttendingEvents" -> myAttendingEvents(user, fail)
    [] name = "createEvent" -> createEvent(user, arg, fail)
    [] name = "updateEvent" -> updateEvent(user, arg, "new title", fail)
    [] name = "deleteEvent" -> deleteEvent(user, arg, fail)
    [] name = "attendEvent" -> attendEvent(user, arg, fail)
    [] name = "cancelAttendance" -> cancelAttendance(user, arg, fail)
    [] name = "updateUser" -> updateUser(user, arg, fail)
    [] OTHER -> deleteUser(user, fail)

\* the arguments a client sends with each operation
ArgsOf(name) ==
  IF name \in {"updateEvent", "deleteEvent", "attendEvent", "cancelAttendance"}
    THEN {"e1", "zz"}
    ELSE IF name \in {"createEvent", "updateUser"} THEN {"new title"} ELSE {"none"}

\* the awaited persistence calls of each resolver body that can fail
FailuresOf(name) ==
  CASE name \in {"attendEvent", "cancelAttendance"} -> Failures
    [] name \in {"updateEvent", "deleteEvent", "myEvents", "myAttendingEvents"} ->
         {"none", "first", "second"}
    [] OTHER -> {"none", "first"}

\* a field guarded by requireAuth is resolved within operation op: the
\* wrapper decides whether the resolver body runs
GuardedOperation(op, name, arg, fail) ==
  /\ Len(gateCalls) < MaxGateCalls
  /\ LET user == contexts[op].user
         given == [parent |-> "parent", args |-> arg, context |-> op, info |-> name]
         body == Resolve(name, user, arg, fail)
         g == requireAuth(user, given, body.out)
         ran == g.times # 0
     IN /\ invocations' = IF ran THEN Append(invocations, [resolver |-> name, passed |-> g.passed])
                           ELSE invocations
        /\ gateCalls' = Append(gateCalls,
                           [resolver |-> name, given |-> given,
                            would |-> IF ran THEN body.out ELSE g.outcome,
                            outcome |-> g.outcome,
                            inv |-> IF ran THEN Len(invocations) + 1 ELSE 0])
        /\ dbUsers' = IF ran THEN body.users ELSE dbUsers
        /\ dbProfiles' = IF ran THEN body.profiles ELSE dbProfiles
        /\ dbEvents' = IF ran THEN body.events ELSE dbEvents
        /\ published' = IF ran THEN published \o body.pub ELSE published
        /\ writes' = IF ran /\ (body.events # dbEvents \/ body.users # dbUsers
                                 \/ body.profiles # dbProfiles)
                       THEN writes + 1 ELSE writes
  /\ UNCHANGED <<kind, cache, batch, batches, calls, fetches, pages, liveVars>>
  /\ UNCHANGED <<clock, issued, contexts, created, instCache, ctxLoads>>

NextGuard ==
  \/ \E acc \in Accounts : IssueToken(acc)
  \/ \E h \in {<<>>, <<BearerPrefix, Forged>>}
              \cup {<<BearerPrefix>> \o issued[i].token : i \in DOMAIN issued} :
       Len(contexts) < MaxGuarded /\ context("http", h)
  \/ \E op \in DOMAIN contexts, name \in GuardedResolvers :
       \E arg \in ArgsOf(name), fail \in FailuresOf(name) :
         Len(gateCalls) < MaxGuarded /\ GuardedOperation(op, name, arg, fail)

SpecGuard == InitAuth /\ [][NextGuard]_vars

(***************************************************************************)
(* Pagination (utils/pagination.ts).  An optional number is a sequence of  *)
(* length 0 (absent: undefined or null) or 1.                              *)
(***************************************************************************)
DefaultPage == 1
DefaultLimit == 10

\* the seeded collection of a paginated listing, oldest first
SeedIds == <<"e1", "e2", "s3", "s4", "s5", "s6", "s7", "s8", "s9", "s10", "s11">>
SeedSizes == {0, 3, 11}

InitPageStore ==
  /\ dbUsers = UserIds
  /\ \E n \in SeedSizes :
       dbEvents = [e \in {SeedIds[i] : i \in 1..n} |->
                     LET i == CHOOSE j \in 1..n : SeedIds[j] = e
                     IN [creator |-> IF i % 2 = 1 THEN "u1" ELSE "u2", attendees |-> <<>>,
                         title |-> "title", createdAt |-> i, __v |-> 0]]
  /\ writes = 0

\* the filters the listing resolvers build: {} and {creator: userId}
Filters == {[field |-> "none", value |-> ""], [field |-> "creator", value |-> "u1"]}

\* the documents of the collection that satisfy the filter now
Matching(filter) ==
  {e \in DOMAIN dbEvents : filter.field = "creator" => dbEvents[e].creator = filter.value}

\* Event.find(filter).sort({createdAt: -1}): the matching events, newest first
RECURSIVE Sorted(_)
Sorted(S) ==
  IF S = {} THEN <<>>
  ELSE LET newest == CHOOSE e \in S : \A x \in S : dbEvents[x].createdAt <= dbEvents[e].createdAt
       IN <<newest>> \o Sorted(S \ {newest})

\* query.skip(skip).limit(limit).exec() over the sorted sequence
Window(seq, skip, limit) ==
  IF skip >= Len(seq) THEN <<>>
  ELSE SubSeq(seq, skip + 1, IF skip + limit < Len(seq) THEN skip + limit ELSE Len(seq))

\* pagination?.page ?? 1 and pagination?.limit ?? 10
OrDefault(opt, default) == IF opt = <<>> THEN default ELSE opt[1]

\* a clamp that falls back to 1 for the page and for the limit alike
ClampToOne(n, default) == IF n > 0 THEN n ELSE 1

\* page > 0 ? page : 1 and limit > 0 ? limit : 10
Clamp(n, default) == IF n > 0 THEN n ELSE default

validPage(page) == Clamp(OrDefault(page, DefaultPage), DefaultPage)
validLimit(limit) == Clamp(OrDefault(limit, DefaultLimit), DefaultLimit)

\* a window that starts one page too late
SkipOffByOne(page, limit) == validPage(page) * validLimit(limit)

\* const skip = (validPage - 1) * validLimit
Skip(page, limit) == (validPage(page) - 1) * validLimit(limit)

\* Math.floor in place of Math.ceil
FloorDiv(a, b) == a \div b

\* Math.ceil(a / b) for a >= 0, b > 0
Ceil(a, b) == (a + b - 1) \div b

\* the Connection object returned at the end of paginateQuery
Connection(page, limit, edges, totalCount) ==
  LET totalPages == Ceil(totalCount, validLimit(limit))
  IN [edges |-> edges,
      pageInfo |-> [hasNextPage |-> validPage(page) < totalPages,
                    hasPreviousPage |-> validPage(page) > 1,
                    currentPage |-> validPage(page),
                    totalPages |-> totalPages],
      totalCount |-> totalCount]

\* a count whose failure is answered with 0
CountOrZero(ans) == [ok |-> TRUE, n |-> IF ans.ok THEN ans.n ELSE 0]

\* await model.countDocuments(filter): the number, or the error rethrown
AwaitCount(ans) == ans

\* paginateQuery(query, model, filter, pagination) up to its first await: the
\* window is computed and the windowed query sent.  Paginated queries share
\* no state with each other, so they are followed one after another.
paginateQuery(filter, page, limit) ==
  /\ Len(pages) < MaxPages
  /\ \A p \in DOMAIN pages : pages[p].st \in {"done", "failed"}
  /\ pages' = Append(pages,
                [filter |-> filter, page |-> page, limit |-> limit,
                 skip |-> Skip(page, limit), lim |-> validLimit(limit),
                 st |-> "fetching", seen |-> <<>>, edges |-> <<>>,
                 totalCount |-> 0, result |-> <<>>, error |-> "none",
                 answers |-> <<>>, changed |-> FALSE])
  /\ UNCHANGED <<dbProfiles, published, liveVars>>
  /\ UNCHANGED <<loaderVars, serverVars>>

\* the windowed query is answered from the collection as it is now, or fails;
\* on success the count is sent
ExecSettles(p, ok) ==
  /\ pages[p].st = "fetching"
  /\ pages' = IF ok
       THEN [pages EXCEPT ![p].st = "counting", ![p].answers = Append(@, ok),
                          ![p].seen = Sorted(Matching(pages[p].filter)),
                          ![p].edges = Window(Sorted(Matching(pages[p].filter)),
                                              pages[p].skip, pages[p].lim)]
       ELSE [pages EXCEPT ![p].st = "failed", ![p].error = "exec",
                          ![p].answers = Append(@, ok)]
  /\ UNCHANGED <<dbProfiles, published, liveVars>>
  /\ UNCHANGED <<loaderVars, serverVars>>

\* the count is answered from the collection as it is now, or fails; on
\* success the Connection is assembled and returned
CountSettles(p, ok) ==
  /\ pages[p].st = "counting"
  /\ LET ans == AwaitCount([ok |-> ok, n |-> Cardinality(Matching(pages[p].filter))])
     IN pages' = IF ans.ok
          THEN [pages EXCEPT ![p].st = "done", ![p].answers = Append(@, ok),
                             ![p].totalCount = ans.n,
                             ![p].result = <<Connection(pages[p].page, pages[p].limit,
                                                        pages[p].edges, ans.n)>>]
          ELSE [pages EXCEPT ![p].st = "failed", ![p].error = "count",
                             ![p].answers = Append(@, ok)]
  /\ UNCHANGED <<dbProfiles, published, liveVars>>
  /\ UNCHANGED <<loaderVars, serverVars>>

\* a paginated query between its windowed fetch and its count
Counting(p) == pages[p].st = "counting"

\* createEvent by another request: new Event({..., creator, attendees: []}).save()
StoreCreateEvent(u) ==
  /\ writes < MaxWrites
  /\ dbEvents' = [e \in DOMAIN dbEvents \cup {NewEventId} |->
                    IF e = NewEventId
                      THEN [creator |-> u, attendees |-> <<>>, title |-> "title",
                            createdAt |-> 100 + writes, __v |-> 0]
                      ELSE dbEvents[e]]
  /\ writes' = writes + 1
  /\ pages' = [p \in DOMAIN pages |->
                 IF Counting(p) THEN [pages[p] EXCEPT !.changed = TRUE] ELSE pages[p]]
  /\ UNCHANGED <<kind, dbUsers, cache, batch, batches, calls, fetches>>
  /\ UNCHANGED <<serverVars, dbProfiles, published, liveVars>>

\* deleteEvent by another request, seen from a paginated query
PageDeleteEvent(e) ==
  /\ writes < MaxWrites
  /\ e \in DOMAIN dbEvents
  /\ dbEvents' = [x \in DOMAIN dbEvents \ {e} |-> dbEvents[x]]
  /\ writes' = writes + 1
  /\ pages' = [p \in DOMAIN pages |->
                 IF Counting(p) THEN [pages[p] EXCEPT !.changed = TRUE] ELSE pages[p]]
  /\ UNCHANGED <<kind, dbUsers, cache, batch, batches, calls, fetches>>
  /\ UNCHANGED <<serverVars, dbProfiles, published, liveVars>>

PageInputs == {<<>>, <<-1>>, <<0>>, <<1>>, <<2>>, <<3>>}
LimitInputs == {<<>>, <<0>>, <<2>>}

InitPage ==
  /\ kind = "eventLoader"
  /\ InitPageStore
  /\ createLoaders
  /\ InitServer
  /\ InitApp

NextPage ==
  \/ \E f \in Filters, page \in PageInputs, limit \in LimitInputs : paginateQuery(f, page, limit)
  \/ \E p \in DOMAIN pages, ok \in BOOLEAN : ExecSettles(p, ok)
  \/ \E p \in DOMAIN pages, ok \in BOOLEAN : CountSettles(p, ok)
  \/ StoreCreateEvent("u1")
  \/ PageDeleteEvent("e1")

SpecPage == InitPage /\ [][NextPage]_vars

(***************************************************************************)
(* C6: every operation gets a loader set of its own: no two contexts hold  *)
(* the same loaders, each cache holds only what its own operation loaded,  *)
(* and a load answered from a cache returns a value that an earlier load   *)
(* of the same operation fetched.                                          *)
(***************************************************************************)
C6_LoadersPerOperation ==
  /\ \A i, j \in DOMAIN contexts :
        i # j => contexts[i].loaders # contexts[j].loaders
  /\ \A n \in DOMAIN ctxLoads :
        ctxLoads[n].hit =>
          \E m \in 1..(n - 1) :
            /\ ctxLoads[m].op = ctxLoads[n].op
            /\ ctxLoads[m].key = ctxLoads[n].key
            /\ ~ctxLoads[m].hit
            /\ ctxLoads[m].value = ctxLoads[n].value
  /\ \A op \in DOMAIN contexts :
        \A k \in DOMAIN instCache[contexts[op].loaders] :
          \E m \in DOMAIN ctxLoads :
            ctxLoads[m].op = op /\ ctxLoads[m].key = k /\ ~ctxLoads[m].hit

\* two operations load the same key around a store change: the later one is
\* not served the earlier one's value
C6_Witness ==
  \E m, n \in DOMAIN ctxLoads :
    /\ m < n
    /\ ctxLoads[m].op # ctxLoads[n].op
    /\ ctxLoads[m].key = ctxLoads[n].key
    /\ ctxLoads[m].value # Rejected
    /\ ctxLoads[n].value # Rejected
    /\ ctxLoads[m].value # ctxLoads[n].value
    /\ ctxLoads[m].key \in DOMAIN instCache[contexts[ctxLoads[m].op].loaders]

(***************************************************************************)
(* C7: a wrapper returned by requireAuth, called with a context that       *)
(* carries no user, fails with 'Authentication required' (UNAUTHENTICATED) *)
(* and the wrapped resolver is not invoked.                                *)
(***************************************************************************)
C7_GateRejects ==
  /\ \A g \in DOMAIN gateCalls :
        ~contexts[gateCalls[g].given.context].user.ok
          => gateCalls[g].outcome = AuthenticationRequired /\ gateCalls[g].inv = 0
  /\ \A i \in DOMAIN invocations :
        contexts[invocations[i].passed.context].user.ok

C7_Witness ==
  \E g \in DOMAIN gateCalls :
    /\ ~contexts[gateCalls[g].given.context].user.ok
    /\ gateCalls[g].outcome = AuthenticationRequired
    /\ gateCalls[g].would.kind = "return"
    /\ invocations = <<>>

(***************************************************************************)
(* C8: called with a context that carries a user, the wrapper invokes the  *)
(* wrapped resolver exactly once, with the arguments it was given, and     *)
(* ends as the resolver ends: same result, or same failure.                *)
(***************************************************************************)
C8_GatePassesThrough ==
  /\ \A g \in DOMAIN gateCalls :
        contexts[gateCalls[g].given.context].user.ok
          => /\ gateCalls[g].inv \in DOMAIN invocations
             /\ invocations[gateCalls[g].inv].passed = gateCalls[g].given
             /\ invocations[gateCalls[g].inv].resolver = gateCalls[g].resolver
             /\ gateCalls[g].outcome = gateCalls[g].would
             /\ \A h \in DOMAIN gateCalls :
                  gateCalls[h].inv = gateCalls[g].inv => h = g
  /\ Len(invocations) =
       Cardinality({g \in DOMAIN gateCalls : contexts[gateCalls[g].given.context].user.ok})

\* one guarded call that returned the resolver's result and one that
\* propagated its failure
C8_Witness ==
  \E g, h \in DOMAIN gateCalls :
    /\ contexts[gateCalls[g].given.context].user.ok
    /\ contexts[gateCalls[h].given.context].user.ok
    /\ gateCalls[g].outcome.kind = "return"
    /\ gateCalls[h].outcome.kind = "throw"
    /\ Len(invocations) = 2

(***************************************************************************)
(* C9: getUserFromToken never throws; an empty credential yields no        *)
(* identity without a call of jwt.verify; a malformed, wrongly signed or   *)
(* expired token yields no identity; one leading "Bearer " is stripped:    *)
(* "Bearer " + t and t yield the same identity for every t that does not   *)
(* itself begin with "Bearer ".                                            *)
(***************************************************************************)
\* the token a credential carries: what follows one optional "Bearer "
Carried(h) == IF h # <<>> /\ h[1] = BearerPrefix THEN Tail(h) ELSE h

\* a token this server signed that has not yet expired at time t
Genuine(tok, t) ==
  \E i \in DOMAIN issued :
    issued[i].token = tok /\ t - issued[i].at < ExpiresIn

C9_ContextsNeverThrow ==
  \A c \in DOMAIN contexts :
    /\ ~contexts[c].threw
    /\ contexts[c].header = <<>> => ~contexts[c].user.ok /\ ~contexts[c].verified
    /\ ~Genuine(Carried(contexts[c].header), contexts[c].at) => ~contexts[c].user.ok
    /\ Genuine(Carried(contexts[c].header), contexts[c].at) => contexts[c].user.ok

C9_BearerOptional(hs) ==
  \A h \in hs :
    getUserFromToken(<<BearerPrefix>> \o h, clock).user = getUserFromToken(h, clock).user

C9_NoIdentityOnFailure ==
  /\ C9_ContextsNeverThrow
  /\ C9_BearerOptional(TokenBodies)

\* the claim as stated: for every credential t, prefixed or not
C9_AnyCredential ==
  /\ C9_ContextsNeverThrow
  /\ C9_BearerOptional(Headers)

\* a prefixed genuine token was accepted and an empty credential refused
C9_Witness ==
  \E c, d \in DOMAIN contexts :
    /\ contexts[c].header # <<>>
    /\ contexts[c].header[1] = BearerPrefix
    /\ contexts[c].user.ok
    /\ contexts[d].header = <<>>
    /\ ~contexts[d].user.ok

(***************************************************************************)
(* C10: a token issued for {id, email} yields that id and email while it   *)
(* is younger than one day and no identity from the moment it is one day   *)
(* old.                                                                    *)
(***************************************************************************)
C10_RoundTrip ==
  /\ \A i \in DOMAIN issued :
        LET r == getUserFromToken(issued[i].token, clock)
        IN IF clock - issued[i].at < ExpiresIn
             THEN r.user.ok /\ r.user.id = issued[i].acc.id
                            /\ r.user.email = issued[i].acc.email
             ELSE ~r.user.ok
  /\ \A c \in DOMAIN contexts, i \in DOMAIN issued :
        contexts[c].header = issued[i].token =>
          IF contexts[c].at - issued[i].at < ExpiresIn
            THEN contexts[c].user.ok /\ contexts[c].user.id = issued[i].acc.id
                                     /\ contexts[c].user.email = issued[i].acc.email
            ELSE ~contexts[c].user.ok

\* one token presented a second before and at the moment of its expiry
C10_Witness ==
  \E c, d \in DOMAIN contexts, i \in DOMAIN issued :
    /\ contexts[c].header = issued[i].token
    /\ contexts[d].header = issued[i].token
    /\ contexts[c].at = issued[i].at + ExpiresIn - 1
    /\ contexts[c].user.ok
    /\ contexts[d].at = issued[i].at + ExpiresIn
    /\ ~contexts[d].user.ok

(***************************************************************************)
(* C11: when the request carries no valid caller identity (no credential,  *)
(* or one that is not an unexpired token signed by this server), every     *)
(* requireAuth-guarded operation fails with 'Authentication required' and  *)
(* leaves the stored users and events as they were and publishes nothing.  *)
(***************************************************************************)
C11_Step ==
  Len(gateCalls') = Len(gateCalls) + 1 =>
    LET g == gateCalls'[Len(gateCalls')]
        ctx == contexts[g.given.context]
    IN ~Genuine(Carried(ctx.header), ctx.at) =>
         /\ g.outcome = AuthenticationRequired
         /\ dbUsers' = dbUsers
         /\ dbProfiles' = dbProfiles
         /\ dbEvents' = dbEvents
         /\ published' = published

C11_NoIdentityNoEffect == [][C11_Step]_vars

\* createEvent was requested with a forged token: refused, nothing stored,
\* nothing published
C11_Witness ==
  \E g \in DOMAIN gateCalls :
    /\ gateCalls[g].resolver = "createEvent"
    /\ contexts[gateCalls[g].given.context].header = <<BearerPrefix, Forged>>
    /\ gateCalls[g].outcome = AuthenticationRequired
    /\ gateCalls[g].inv = 0
    /\ DOMAIN dbEvents = EventIds
    /\ published = <<>>

(***************************************************************************)
(* C12: paginateQuery uses page 1 whenever the supplied page is absent or  *)
(* <= 0 and limit 10 whenever the supplied limit is absent or <= 0, each   *)
(* independently of the other; a call with page = -1, limit = 0 has the    *)
(* skip, the limit and the envelope of a call with page = 1, limit = 10.   *)
(***************************************************************************)
Unusable(opt) == opt = <<>> \/ opt[1] <= 0

C12_Defaults ==
  \A p \in DOMAIN pages :
    LET c == pages[p]
    IN /\ Unusable(c.limit) => c.lim = 10
       /\ ~Unusable(c.limit) => c.lim = c.limit[1]
       /\ Unusable(c.page) => c.skip = 0
       /\ ~Unusable(c.page) => c.skip = (c.page[1] - 1) * c.lim
       /\ (Unusable(c.page) /\ Unusable(c.limit)) =>
            /\ c.skip = Skip(<<1>>, <<10>>)
            /\ c.lim = validLimit(<<10>>)
            /\ c.st \in {"counting", "done"} => c.edges = Window(c.seen, 0, 10)
            /\ c.st = "done" =>
                 c.result = <<Connection(<<1>>, <<10>>, c.edges, c.totalCount)>>

\* page = -1, limit = 0 over eleven events: ten edges, two pages
C12_Witness ==
  \E p \in DOMAIN pages :
    /\ pages[p].page = <<-1>>
    /\ pages[p].limit = <<0>>
    /\ pages[p].st = "done"
    /\ Len(pages[p].result[1].edges) = 10
    /\ pages[p].result[1].pageInfo.totalPages = 2
    /\ pages[p].result[1].pageInfo.currentPage = 1

(***************************************************************************)
(* C13: in every returned envelope totalPages = ceil(totalCount / limit)   *)
(* (0 when totalCount = 0), hasNextPage = (currentPage < totalPages),      *)
(* hasPreviousPage = (currentPage > 1), and currentPage is the clamped     *)
(* page, not the raw input.                                                *)
(***************************************************************************)
C13_EnvelopeInvariants ==
  \A p \in DOMAIN pages :
    pages[p].st = "done" =>
      LET c == pages[p]
          env == c.result[1]
          info == env.pageInfo
      IN /\ env.totalCount = c.totalCount
         /\ info.totalPages * c.lim >= env.totalCount
         /\ (info.totalPages - 1) * c.lim < env.totalCount \/ info.totalPages = 0
         /\ env.totalCount = 0 => info.totalPages = 0
         /\ info.hasNextPage <=> info.currentPage < info.totalPages
         /\ info.hasPreviousPage <=> info.currentPage > 1
         /\ info.currentPage = IF Unusable(c.page) THEN 1 ELSE c.page[1]

\* three events in pages of two, second page: the division is not exact
C13_Witness ==
  \E p \in DOMAIN pages :
    /\ pages[p].st = "done"
    /\ pages[p].totalCount = 3
    /\ pages[p].lim = 2
    /\ pages[p].result[1].pageInfo =
         [hasNextPage |-> FALSE, hasPreviousPage |-> TRUE, currentPage |-> 2, totalPages |-> 2]

(***************************************************************************)
(* C14: the windowed fetch returns the items of the sorted, filtered       *)
(* sequence from position skip = (page - 1) * limit on, at most limit of   *)
(* them and exactly limit when that many remain, for the clamped page and  *)
(* limit.                                                                  *)
(***************************************************************************)
C14_Window ==
  \A p \in DOMAIN pages :
    pages[p].st \in {"counting", "done"} =>
      LET c == pages[p]
          page == IF Unusable(c.page) THEN 1 ELSE c.page[1]
          limit == IF Unusable(c.limit) THEN 10 ELSE c.limit[1]
          left == IF Len(c.seen) > (page - 1) * limit THEN Len(c.seen) - (page - 1) * limit ELSE 0
      IN /\ Len(c.edges) = IF left < limit THEN left ELSE limit
         /\ \A i \in DOMAIN c.edges : c.edges[i] = c.seen[(page - 1) * limit + i]
         /\ \A i, j \in DOMAIN c.seen :
              (i < j /\ c.seen[i] \in DOMAIN dbEvents /\ c.seen[j] \in DOMAIN dbEvents)
                => dbEvents[c.seen[i]].createdAt > dbEvents[c.seen[j]].createdAt
         /\ \A i \in DOMAIN c.seen :
              (c.filter.field = "creator" /\ c.seen[i] \in DOMAIN dbEvents)
                => dbEvents[c.seen[i]].creator = c.filter.value

\* second page of two out of six filtered events: the third and the fourth
C14_Witness ==
  \E p \in DOMAIN pages :
    /\ pages[p].page = <<2>>
    /\ pages[p].limit = <<2>>
    /\ pages[p].filter.field = "creator"
    /\ Len(pages[p].seen) = 6
    /\ pages[p].edges = <<pages[p].seen[3], pages[p].seen[4]>>

(***************************************************************************)
(* C15: a page number greater than totalPages yields no error but an       *)
(* envelope with an empty item list, the true totalCount and totalPages,   *)
(* and hasNextPage = false.                                                *)
(***************************************************************************)
C15_BeyondLastPage ==
  \A p \in DOMAIN pages :
    pages[p].answers = <<TRUE, TRUE>> =>
      /\ pages[p].st = "done"
      /\ LET env == pages[p].result[1]
         IN env.pageInfo.currentPage > env.pageInfo.totalPages =>
              /\ env.edges = <<>>
              /\ env.totalCount = pages[p].totalCount
              /\ env.pageInfo.totalPages * pages[p].lim >= env.totalCount
              /\ ~env.pageInfo.hasNextPage

(***************************************************************************)
(* C16: paginateQuery returns an envelope only after the windowed fetch    *)
(* and the count have both succeeded; if either fails the call fails with  *)
(* that failure and returns no envelope, not even a partial one.           *)
(***************************************************************************)
C16_BothOrNothing ==
  \A p \in DOMAIN pages :
    LET c == pages[p]
    IN /\ c.result # <<>> => c.st = "done" /\ c.answers = <<TRUE, TRUE>>
       /\ c.st = "done" => c.result # <<>>
       /\ c.answers = <<FALSE>> => c.st = "failed" /\ c.error = "exec" /\ c.result = <<>>
       /\ c.answers = <<TRUE, FALSE>> => c.st = "failed" /\ c.error = "count" /\ c.result = <<>>
       /\ c.answers \in {<<>>, <<TRUE>>} => c.st \in {"fetching", "counting"} /\ c.result = <<>>
       /\ c.answers \in {<<>>, <<TRUE>>, <<FALSE>>, <<TRUE, TRUE>>, <<TRUE, FALSE>>}

\* the fetch had returned items when the count failed: nothing is returned
C16_Witness ==
  \E p \in DOMAIN pages :
    /\ pages[p].answers = <<TRUE, FALSE>>
    /\ pages[p].edges # <<>>
    /\ pages[p].st = "failed"
    /\ pages[p].result = <<>>

(***************************************************************************)
(* C17: every envelope returned by a paginated query is internally         *)
(* consistent: the number of items equals min(limit, max(0, totalCount -   *)
(* skip)), also when createEvent or deleteEvent on the same collection     *)
(* interleave with the windowed fetch and the count.                       *)
(***************************************************************************)
C17_ConsistentEnvelope ==
  \A p \in DOMAIN pages :
    pages[p].st = "done" =>
      LET env == pages[p].result[1]
          left == IF env.totalCount > pages[p].skip THEN env.totalCount - pages[p].skip ELSE 0
      IN Len(env.edges) = IF left < pages[p].lim THEN left ELSE pages[p].lim

(***************************************************************************)
(* C18: a batch on eventAttendeesLoader issues one event fetch and then    *)
(* one user fetch, never one user fetch per event; the user fetch is       *)
(* issued only after the event fetch has returned, and it queries the      *)
(* attendee ids of all fetched events, each id once.                       *)
(***************************************************************************)
EventFetchesOf(b) == {n \in FetchesOf(b) : fetches[n].model = "Event"}
UserFetchesOf(b) == {n \in FetchesOf(b) : fetches[n].model = "User"}

C18_TwoPhase ==
  kind = "eventAttendeesLoader" =>
    \A b \in DOMAIN batches :
      /\ Cardinality(EventFetchesOf(b)) <= 1
      /\ Cardinality(UserFetchesOf(b)) <= 1
      /\ (batches[b].st = "done" /\ batches[b].keys # <<>>) =>
           Cardinality(EventFetchesOf(b)) = 1 /\ Cardinality(UserFetchesOf(b)) = 1
      /\ \A u \in UserFetchesOf(b) :
           \E e \in EventFetchesOf(b) :
             /\ e < u
             /\ fetches[e].st = "ok"
             /\ Range(fetches[e].ids) = {ObjectId(k) : k \in Range(batches[b].keys)}
             /\ Range(fetches[u].ids) =
                  UNION {Range(r.attendees) : r \in Range(fetches[e].rows)}
             /\ \A i, j \in DOMAIN fetches[u].ids :
                  fetches[u].ids[i] = fetches[u].ids[j] => i = j

\* two events that share one attendee and have one more each: one event
\* fetch, one user fetch for three ids
C18_Witness ==
  /\ kind = "eventAttendeesLoader"
  /\ \E b \in DOMAIN batches :
       /\ batches[b].st = "done"
       /\ Len(batches[b].keys) = 2
       /\ Len(batches[b].events) = 2
       /\ \E a \in UserIds :
            a \in Range(batches[b].events[1].attendees) \cap Range(batches[b].events[2].attendees)
       /\ \E u \in UserFetchesOf(b) : Len(fetches[u].ids) = 3
       /\ Cardinality(FetchesOf(b)) = 2

(***************************************************************************)
(* C19: for each requested user id u, userEventsLoader returns exactly the *)
(* fetched events whose creator is u and userAttendingEventsLoader exactly *)
(* the fetched events whose attendee list contains u: an event attended by *)
(* several requested users is in the result of each of them and in no      *)
(* other; a user with no event receives an empty list.                     *)
(***************************************************************************)
C19_GroupedByUser ==
  kind \in {"userEventsLoader", "userAttendingEventsLoader"} =>
    \A b \in DOMAIN batches :
      batches[b].st = "done" =>
        \A n \in FetchesOf(b) : \A i \in DOMAIN batches[b].keys :
          LET u == batches[b].keys[i]
              got == batches[b].values[i]
              Mine(r) == IF kind = "userEventsLoader" THEN r.creator = u
                         ELSE \E j \in DOMAIN r.attendees : r.attendees[j] = u
          IN /\ got.tag = "list"
             /\ Range(got.rows) = {r \in Range(fetches[n].rows) : Mine(r)}
             /\ \A x, y \in DOMAIN got.rows : got.rows[x] = got.rows[y] => x = y

\* one event attended by both requested users is in both results
C19_Witness ==
  /\ kind = "userAttendingEventsLoader"
  /\ \E b \in DOMAIN batches :
       /\ batches[b].st = "done"
       /\ Len(batches[b].keys) = 2
       /\ \E r \in Range(batches[b].values[1].rows) :
            /\ r \in Range(batches[b].values[2].rows)
            /\ batches[b].keys[1] \in Range(r.attendees)
            /\ batches[b].keys[2] \in Range(r.attendees)

(***************************************************************************)
(* C20: for each requested event id, eventAttendeesLoader returns the      *)
(* users of the event's attendee ids in the order of the attendee list,    *)
(* leaving out every attendee id for which no user was fetched, without    *)
(* an error; an event id that matches no event receives an empty list.     *)
(***************************************************************************)
C20_AttendeesInListOrder ==
  kind = "eventAttendeesLoader" =>
    \A b \in DOMAIN batches :
      /\ (/\ Settled(b)
           /\ Cardinality(FetchesOf(b)) = 2
           /\ \A n \in FetchesOf(b) : fetches[n].st = "ok") => batches[b].st = "done"
      /\ batches[b].st = "done" =>
           \A e \in EventFetchesOf(b), u \in UserFetchesOf(b) :
             \A i \in DOMAIN batches[b].keys :
               LET got == batches[b].values[i]
                   mine == {r \in Range(fetches[e].rows) : r._id = batches[b].keys[i]}
                   Fetched(a) == \E r \in Range(fetches[u].rows) : r._id = a
               IN /\ got.tag = "list"
                  /\ mine = {} => got.rows = <<>>
                  /\ \A r \in mine :
                       LET kept == SelectSeq(r.attendees, Fetched)
                       IN /\ Len(got.rows) = Len(kept)
                          /\ \A j \in DOMAIN kept : got.rows[j]._id = kept[j]

\* an attendee whose user is gone is left out, the other is kept, and an id
\* that matches no event receives an empty list
C20_Witness ==
  /\ kind = "eventAttendeesLoader"
  /\ \E b \in DOMAIN batches :
       /\ batches[b].st = "done"
       /\ \E i, j \in DOMAIN batches[b].keys :
            /\ \E r \in Range(batches[b].events) :
                 /\ r._id = batches[b].keys[i]
                 /\ Len(r.attendees) = 2
                 /\ Len(batches[b].values[i].rows) = 1
            /\ \A r \in Range(batches[b].events) : r._id # batches[b].keys[j]
            /\ batches[b].values[j] = List(<<>>)

(***************************************************************************)
(* C25: which batch a load call joins is determined by the order of load   *)
(* calls and dispatch points only: a call issued while the current batch   *)
(* is still queued joins it; a call issued after the batch was dispatched  *)
(* opens a new batch, and no step ever changes the keys of a dispatched    *)
(* batch, whenever its fetch is answered.                                  *)
(***************************************************************************)
C25_Step ==
  /\ \A b \in DOMAIN batches :
       batches[b].st # "queued" =>
         /\ b \in DOMAIN batches'
         /\ batches'[b].keys = batches[b].keys
  /\ Len(calls') = Len(calls) => batch' = batch
  /\ Len(calls') = Len(calls) + 1 =>
       LET c == calls'[Len(calls')]
       IN /\ IF batch # 0 /\ batches[batch].st = "queued"
               THEN /\ c.via = batch
                    /\ batch' = batch
                    /\ Len(batches') = Len(batches)
               ELSE /\ c.via = Len(batches) + 1
                    /\ batch' = c.via
                    /\ Len(batches') = Len(batches) + 1
                    /\ batches'[c.via].st = "queued"
                    /\ \A b \in DOMAIN batches : batches'[b] = batches[b]
          /\ ~c.hit => /\ c.ref[1] = c.via
                       /\ batches'[c.via].keys[c.ref[2]] = c.key

C25_BatchByOrder == [][C25_Step]_vars

\* a second load was made while the find of the first batch was in flight: it
\* opened batch 2 and batch 1 still holds its one key
C25_Witness ==
  /\ Len(calls) = 2
  /\ Len(batches) = 2
  /\ batches[1].st \in {"fetch1", "fetch2"}
  /\ Len(batches[1].keys) = 1
  /\ calls[2].via = 2
  /\ ~calls[2].hit
  /\ batches[2].keys = <<calls[2].key>>

(***************************************************************************)
(* C27: the result of load(k) for a well-formed key k does not depend on   *)
(* the other keys of its batch: no find is sent for a malformed key and    *)
(* a malformed key in the same batch does not make load(k) reject.         *)
(***************************************************************************)
C27_KeyIndependence ==
  /\ \A n \in DOMAIN fetches :
       \A i \in DOMAIN fetches[n].ids : isValidObjectId(fetches[n].ids[i])
  /\ \A c \in DOMAIN calls :
       isValidObjectId(calls[c].key) => CallOutcome(c).error.name # "BSONError"

(***************************************************************************)
(* C30: when the collaborator eventually answers every find, every load    *)
(* call eventually settles: its promise is fulfilled or rejected.          *)
(***************************************************************************)
\* A settled call stays settled and calls are only ever added, so "again and
\* again every call made so far has settled" says that each call settles.
C30_EveryLoadSettles ==
  []<>(\A c \in DOMAIN calls : CallOutcome(c).st # "pending")

\* two loads in two batches have both settled, one fulfilled after its find
\* was answered and one rejected
C30_Witness ==
  /\ Len(calls) = 2
  /\ calls[1].via # calls[2].via
  /\ \E c, d \in DOMAIN calls :
       /\ CallOutcome(c).st = "fulfilled"
       /\ CallOutcome(d).st = "rejected"
  /\ \A n \in DOMAIN fetches : fetches[n].st # "pending"

(***************************************************************************)
(* C23: updateEvent and deleteEvent change or remove an event only when    *)
(* the authenticated caller is the creator of that event; a call by any    *)
(* other authenticated user fails with the FORBIDDEN error ('Not           *)
(* authorized to perform this action'), leaves the event unchanged and     *)
(* publishes nothing.                                                      *)
(***************************************************************************)
Forbidden == Throws("Not authorized to perform this action")

C23_Step ==
  \A op \in DOMAIN contexts, name \in {"updateEvent", "deleteEvent"} :
    \A arg \in ArgsOf(name), fail \in FailuresOf(name) :
      GuardedOperation(op, name, arg, fail) =>
        LET user == contexts[op].user
            g == gateCalls'[Len(gateCalls')]
            stored == isValidObjectId(arg) /\ ObjectId(arg) \in DOMAIN dbEvents
        IN /\ (dbEvents' # dbEvents \/ published' # published) =>
                /\ user.ok
                /\ stored
                /\ dbEvents[ObjectId(arg)].creator = user.id
                /\ \A e \in DOMAIN dbEvents \ {ObjectId(arg)} :
                     e \in DOMAIN dbEvents' /\ dbEvents'[e] = dbEvents[e]
           \* the lookup of the event succeeded and the caller is not its creator
           /\ (/\ user.ok
               /\ stored
               /\ fail # "first"
               /\ dbEvents[ObjectId(arg)].creator # user.id) =>
                /\ g.outcome = Forbidden
                /\ dbEvents' = dbEvents
                /\ published' = published

C23_OnlyCreator == [][C23_Step]_vars

\* u2, authenticated, asked to update or delete e1, created by u1: refused as
\* forbidden, e1 is stored as it was and nothing was published
C23_Witness ==
  /\ \E g \in DOMAIN gateCalls :
       /\ gateCalls[g].resolver \in {"updateEvent", "deleteEvent"}
       /\ gateCalls[g].outcome = Forbidden
       /\ gateCalls[g].given.args = "e1"
       /\ contexts[gateCalls[g].given.context].user.ok
       /\ contexts[gateCalls[g].given.context].user.id = "u2"
  /\ "e1" \in DOMAIN dbEvents
  /\ dbEvents["e1"].creator = "u1"
  /\ dbEvents["e1"].title = "title"
  /\ published = <<>>

(***************************************************************************)
(* Subscriptions (subscriptionResolvers): eventUpdated, userJoinedEvent    *)
(* and userLeftEvent wrap their topic's iterator in withFilter.  An        *)
(* optional value is a sequence of length 0 (undefined or null) or 1.      *)
(***************************************************************************)
FilteredFields == {"eventUpdated", "userJoinedEvent", "userLeftEvent"}

\* the variables a subscriber sends: none at all, no eventId, an empty
\* eventId, or the id of an event
VariablesSet ==
  {<<>>} \cup {<<[eventId |-> id]>> : id \in {<<>>, <<"">>, <<"e1">>, <<"e2">>}}

\* what the iterator of each topic can yield: nothing, or the payload a
\* mutation published; findByIdAndUpdate answers null for an event that is gone
PayloadsOf(field) ==
  IF field = "eventUpdated"
    THEN {<<>>} \cup {<<[eventUpdated |-> ev]>> : ev \in {<<>>, <<[id |-> "e1"]>>, <<[id |-> "e2"]>>}}
    ELSE {<<>>} \cup {<<[eventId |-> e]>> : e \in {"e1", "e2"}}

\* !x for an optional string: undefined, null and '' are falsy
Falsy(opt) == opt = <<>> \/ opt = <<"">>

\* eventUpdatedFilter(payload, variables): reading .id of a null eventUpdated
\* throws a TypeError
eventUpdatedFilter(payload, variables) ==
  IF payload = <<>> \/ variables = <<>> THEN "false"
  ELSE IF Falsy(variables[1].eventId) THEN "true"
  ELSE IF payload[1].eventUpdated = <<>> THEN "TypeError"
  ELSE IF payload[1].eventUpdated[1].id = variables[1].eventId[1] THEN "true"
  ELSE "false"

\* userEventFilter(payload, variables)
userEventFilter(payload, variables) ==
  IF payload = <<>> \/ variables = <<>> THEN "false"
  ELSE IF Falsy(variables[1].eventId) THEN "false"
  ELSE IF payload[1].eventId = variables[1].eventId[1] THEN "true"
  ELSE "false"

\* a client opens a subscription on one of the filtered fields
subscribe(field, variables) ==
  /\ Len(subs) < MaxSubs
  /\ subs' = Append(subs, [field |-> field, variables |-> variables])
  /\ UNCHANGED <<muts, delivered>>
  /\ UNCHANGED <<loaderVars, serverVars, appVars>>

\* withFilter: the iterator of subscription s yields a payload and the filter
\* decides whether the subscriber receives it
withFilter(s, payload) ==
  /\ Len(delivered) < MaxDeliveries
  /\ delivered' = Append(delivered,
                    [sub |-> s, payload |-> payload,
                     filter |-> IF subs[s].field = "eventUpdated"
                                  THEN eventUpdatedFilter(payload, subs[s].variables)
                                  ELSE userEventFilter(payload, subs[s].variables)])
  /\ UNCHANGED <<muts, subs>>
  /\ UNCHANGED <<loaderVars, serverVars, appVars>>

\* only a filter that returns true lets the payload through
Received(d) == d.filter = "true"

NextSub ==
  \/ \E f \in FilteredFields, v \in VariablesSet : subscribe(f, v)
  \/ \E s \in DOMAIN subs : \E p \in PayloadsOf(subs[s].field) : withFilter(s, p)

SpecSub == InitAuth /\ [][NextSub]_vars

(***************************************************************************)
(* C24: a userJoinedEvent or userLeftEvent payload is received only by a   *)
(* subscriber that supplied an eventId equal to the payload's eventId; an  *)
(* eventUpdated payload is received by every subscriber that supplied no   *)
(* eventId and otherwise only by subscribers whose eventId equals the id   *)
(* of the updated event; a missing payload or missing variables are never  *)
(* delivered.                                                              *)
(***************************************************************************)
C24_FilteredDelivery ==
  \A n \in DOMAIN delivered :
    LET d == delivered[n]
        p == d.payload
        v == subs[d.sub].variables
    IN /\ (p = <<>> \/ v = <<>>) => ~Received(d)
       /\ (p # <<>> /\ v # <<>>) =>
            IF subs[d.sub].field = "eventUpdated"
              THEN /\ v[1].eventId = <<>> => Received(d)
                   /\ (v[1].eventId # <<>> /\ Received(d)) =>
                        /\ p[1].eventUpdated # <<>>
                        /\ p[1].eventUpdated[1].id = v[1].eventId[1]
              ELSE Received(d) =>
                     /\ v[1].eventId # <<>>
                     /\ p[1].eventId = v[1].eventId[1]

(***************************************************************************)
(* One operation with several mutation fields.  The fields of a mutation   *)
(* run one after another, each with its selection set, and all resolve     *)
(* through the loaders of the operation's context.                         *)
(***************************************************************************)
AttendanceFields == {"attendEvent", "cancelAttendance"}

\* Event.attendees of the event the last mutation field returned:
\* loaders.eventAttendeesLoader.load(parent._id.toString())
EventAttendees(op) ==
  /\ gateCalls # <<>>
  /\ LET g == gateCalls[Len(gateCalls)]
     IN /\ g.given.context = op
        /\ g.resolver \in AttendanceFields
        /\ g.outcome.kind = "return"
        /\ CtxLoad(op, g.outcome.v)

InitOp ==
  /\ kind = "eventAttendeesLoader"
  /\ InitStore
  /\ createLoaders
  /\ InitServer
  /\ InitApp

NextOp ==
  \/ \E acc \in Accounts : IssueToken(acc)
  \/ \E i \in DOMAIN issued :
       contexts = <<>> /\ context("http", <<BearerPrefix>> \o issued[i].token)
  \/ \E op \in DOMAIN contexts, name \in AttendanceFields :
       \E arg \in ArgsOf(name), fail \in FailuresOf(name) :
         GuardedOperation(op, name, arg, fail)
  \/ \E op \in DOMAIN contexts : EventAttendees(op)

SpecOp == InitOp /\ [][NextOp]_vars

(***************************************************************************)
(* C28: within one operation, the attendees resolved for the event that    *)
(* attendEvent or cancelAttendance returned are the attendee list that     *)
(* mutation has just saved, also when an earlier mutation field of the     *)
(* operation resolved the attendees of the same event.                     *)
(***************************************************************************)
C28_Step ==
  \A op \in DOMAIN contexts :
    EventAttendees(op) =>
      LET l == ctxLoads'[Len(ctxLoads')]
      IN l.value # Rejected =>
           /\ l.value.tag = "list"
           /\ [i \in DOMAIN l.value.rows |-> l.value.rows[i]._id] = dbEvents[l.key].attendees

C28_AttendeesAsSaved == [][C28_Step]_vars

(***************************************************************************)
(* The event mutations step by step.  Requests run concurrently: each      *)
(* mutation is followed from one await to the next, and the steps of       *)
(* different mutations interleave.  The Event schema keeps the default     *)
(* version key: save() of a pushed attendee sends $push with $inc __v,     *)
(* save() of a reassigned attendee array sends $set of the whole array     *)
(* with $inc __v and the condition that __v is still the one read.         *)
(***************************************************************************)
MutationNames ==
  {"createEvent", "updateEvent", "deleteEvent", "attendEvent", "cancelAttendance"}

\* the callers followed: u1 created e1 and attends it, u3 does neither
Callers == {"u1", "u3"}

MutationArgs(name) == IF name = "createEvent" THEN {"new title"} ELSE {"e1", "zz"}

TopicOf(name) ==
  CASE name = "createEvent" -> "EVENT_CREATED"
    [] name = "updateEvent" -> "EVENT_UPDATED"
    [] name = "deleteEvent" -> "EVENT_DELETED"
    [] name = "attendEvent" -> "USER_JOINED_EVENT"
    [] OTHER -> "USER_LEFT_EVENT"

\* the GraphQLError the catch block throws for an error that is none
GenericError(name) ==
  CASE name = "createEvent" -> Throws("Error creating event")
    [] name = "updateEvent" -> Throws("Error updating event")
    [] name = "deleteEvent" -> Throws("Error deleting event")
    [] name = "attendEvent" -> Throws("Error attending event")
    [] OTHER -> Throws("Error canceling attendance")

\* updateEvent(...): Event! resolved to null
NullForNonNull == Throws("Cannot return null for non-nullable field Mutation.updateEvent")

Running == [kind |-> "running", v |-> ""]

\* the document a mutation holds before findById has answered
NoDocument == [attendees |-> <<>>, __v |-> 0]

\* the mutation has returned or thrown
Finish(mu, out) == [mu EXCEPT !.pc = "done", !.out = out]

\* A check that never finds the caller in the list.
NeverAttending(attendees, userId) == FALSE

\* event.attendees.some(attendeeId => attendeeId.toString() === user.id)
isAttending(attendees, userId) == userId \in Range(attendees)

\* A save that overwrites whatever version is stored.
NoVersionCheck(stored, doc) == TRUE

\* the condition {__v: doc.__v} of the update save() sends for a reassigned array
VersionMatches(stored, doc) == stored.__v = doc.__v

\* a resolver body starts: it runs up to its first await
BeginMutation(name, user, arg) ==
  /\ Len(muts) < MaxMuts
  /\ LET mu == [name |-> name, user |-> user, arg |-> arg, pc |-> "find",
                doc |-> NoDocument, out |-> Running, wrote |-> FALSE, savedAt |-> 0,
                pubs |-> 0]
     IN muts' = Append(muts,
                  IF name = "createEvent" THEN [mu EXCEPT !.pc = "write"]
                  ELSE IF ~isValidObjectId(arg) THEN Finish(mu, Throws("Event not found"))
                  ELSE mu)
  /\ UNCHANGED <<subs, delivered>>
  /\ UNCHANGED <<loaderVars, serverVars, appVars>>

\* Event.findById answers mutation m and the body runs up to its next await
FindByIdSettles(m, ok) ==
  /\ muts[m].pc = "find"
  /\ LET mu == muts[m]
         e == ObjectId(mu.arg)
     IN muts' = [muts EXCEPT ![m] =
          IF ~ok THEN Finish(mu, GenericError(mu.name))
          ELSE IF e \notin DOMAIN dbEvents THEN Finish(mu, Throws("Event not found"))
          ELSE LET doc == [attendees |-> dbEvents[e].attendees, __v |-> dbEvents[e].__v]
               IN CASE mu.name \in {"updateEvent", "deleteEvent"} ->
                         IF checkIsCreator(e, mu.user)
                           THEN [mu EXCEPT !.pc = "write", !.doc = doc]
                           ELSE Finish(mu, Throws("Not authorized to perform this action"))
                    [] mu.name = "attendEvent" ->
                         IF isAttending(doc.attendees, mu.user)
                           THEN Finish(mu, Throws("Already attending this event"))
                           ELSE [mu EXCEPT !.pc = "write",
                                           !.doc = [doc EXCEPT !.attendees = Append(@, mu.user)]]
                    [] OTHER ->
                         IF isAttending(doc.attendees, mu.user)
                           THEN [mu EXCEPT !.pc = "load", !.doc = doc]
                           ELSE Finish(mu, Throws("Not attending this event"))]
  /\ UNCHANGED <<subs, delivered>>
  /\ UNCHANGED <<loaderVars, serverVars, appVars>>

\* what the answer to the write of mutation mu does: the store after it, what
\* the body publishes before its next await, and the mutation after the step
WriteEffect(mu, ok) ==
  LET e == ObjectId(mu.arg)
      stored == e \in DOMAIN dbEvents
      failed == [events |-> dbEvents, pub |-> <<>>, mut |-> Finish(mu, GenericError(mu.name))]
      \* the write was answered without an error; it changed the store
      answered == [mu EXCEPT !.wrote = TRUE]
      saved == [answered EXCEPT !.savedAt = writes + 1]
  IN IF ~ok THEN failed
     ELSE CASE mu.name = "createEvent" ->
                 [events |-> [x \in DOMAIN dbEvents \cup {NewEventId} |->
                                IF x = NewEventId
                                  THEN [creator |-> mu.user, attendees |-> <<>>, title |-> mu.arg,
                                        createdAt |-> 100 + writes, __v |-> 0]
                                  ELSE dbEvents[x]],
                  pub |-> <<Message("EVENT_CREATED", NewEventId, mu.user)>>,
                  mut |-> Finish(saved, Returns(NewEventId))]
            [] mu.name = "updateEvent" ->
                 \* findByIdAndUpdate(id, {...eventInput}, {new: true}): null when
                 \* the event is gone; the result is published unchecked
                 IF stored
                   THEN [events |-> [dbEvents EXCEPT ![e].title = "new title"],
                         pub |-> <<Message("EVENT_UPDATED", e, mu.user)>>,
                         mut |-> Finish(saved, Returns(e))]
                   ELSE [events |-> dbEvents,
                         pub |-> <<Message("EVENT_UPDATED", "null", mu.user)>>,
                         mut |-> Finish(answered, NullForNonNull)]
            [] mu.name = "deleteEvent" ->
                 \* findByIdAndDelete(id): its result is not looked at
                 [events |-> [x \in DOMAIN dbEvents \ {e} |-> dbEvents[x]],
                  pub |-> <<Message("EVENT_DELETED", mu.arg, mu.user)>>,
                  mut |-> Finish(IF stored THEN saved ELSE answered, Returns("true"))]
            [] mu.name = "attendEvent" ->
                 \* $push of the new attendee onto the stored array
                 IF stored
                   THEN [events |-> [dbEvents EXCEPT ![e].attendees = Append(@, mu.user),
                                                     ![e].__v = @ + 1],
                         pub |-> <<>>,
                         mut |-> [saved EXCEPT !.pc = "load"]]
                   ELSE failed
            [] OTHER ->
                 \* $set of the filtered array where __v is the version read
                 IF stored /\ VersionMatches(dbEvents[e], mu.doc)
                   THEN [events |-> [dbEvents EXCEPT ![e].attendees = mu.doc.attendees,
                                                     ![e].__v = @ + 1],
                         pub |-> <<Message("USER_LEFT_EVENT", mu.arg, mu.user)>>,
                         mut |-> Finish(saved, Returns(e))]
                   ELSE failed

\* the store answers the write of mutation m and the body runs on
WriteSettles(m, ok) ==
  /\ muts[m].pc = "write"
  /\ LET eff == WriteEffect(muts[m], ok)
     IN /\ dbEvents' = eff.events
        /\ writes' = IF eff.events # dbEvents THEN writes + 1 ELSE writes
        /\ published' = published \o eff.pub
        /\ muts' = [muts EXCEPT ![m] = [eff.mut EXCEPT !.pubs = @ + Len(eff.pub)]]
  /\ UNCHANGED <<subs, delivered>>
  /\ UNCHANGED <<kind, dbUsers, cache, batch, batches, calls, fetches>>
  /\ UNCHANGED <<serverVars, dbProfiles, pages>>

\* loaders.userLoader.load(user.id) settles for mutation m: attendEvent then
\* publishes and returns, cancelAttendance reassigns the list and saves
LoadSettles(m, ok) ==
  /\ muts[m].pc = "load"
  /\ LET mu == muts[m]
         Other(a) == a # mu.user
         joined == mu.name = "attendEvent" /\ ok
     IN /\ muts' = [muts EXCEPT ![m] =
             IF ~ok THEN Finish(mu, GenericError(mu.name))
             ELSE IF mu.name = "attendEvent"
               THEN [Finish(mu, Returns(ObjectId(mu.arg))) EXCEPT !.pubs = @ + 1]
               ELSE [mu EXCEPT !.pc = "write", !.doc.attendees = SelectSeq(@, Other)]]
        /\ published' = IF joined
                          THEN Append(published, Message("USER_JOINED_EVENT", mu.arg, mu.user))
                          ELSE published
  /\ UNCHANGED <<subs, delivered>>
  /\ UNCHANGED <<loaderVars, serverVars, dbProfiles, pages>>

NextMut ==
  \/ \E name \in MutationNames, user \in Callers :
       \E arg \in MutationArgs(name) : BeginMutation(name, user, arg)
  \/ \E m \in DOMAIN muts, ok \in BOOLEAN : FindByIdSettles(m, ok)
  \/ \E m \in DOMAIN muts, ok \in BOOLEAN : WriteSettles(m, ok)
  \/ \E m \in DOMAIN muts, ok \in BOOLEAN : LoadSettles(m, ok)

SpecMut == InitAuth /\ [][NextMut]_vars

(***************************************************************************)
(* C21: after any interleaving of attendEvent and cancelAttendance calls,  *)
(* two concurrent attendEvent calls of one user included, no event's       *)
(* attendee list holds the same user id twice.                             *)
(***************************************************************************)
C21_NoDuplicateAttendees ==
  \A e \in DOMAIN dbEvents :
    \A i, j \in DOMAIN dbEvents[e].attendees :
      i # j => dbEvents[e].attendees[i] # dbEvents[e].attendees[j]

(***************************************************************************)
(* C22: attendEvent by a user who is in the event's attendee list fails    *)
(* with 'Already attending this event' and cancelAttendance by a user who  *)
(* is not in the list fails with 'Not attending this event'; either call   *)
(* ends there: it writes nothing to the store and publishes nothing.       *)
(***************************************************************************)
AlreadyAttending == Throws("Already attending this event")
NotAttending == Throws("Not attending this event")

C22_Step ==
  /\ \A m \in DOMAIN muts :
       (FindByIdSettles(m, TRUE) /\ ObjectId(muts[m].arg) \in DOMAIN dbEvents) =>
         LET mu == muts[m]
             inList == mu.user \in Range(dbEvents[ObjectId(mu.arg)].attendees)
             refused == IF mu.name = "attendEvent" THEN AlreadyAttending ELSE NotAttending
         IN ((mu.name = "attendEvent" /\ inList) \/ (mu.name = "cancelAttendance" /\ ~inList)) =>
              /\ muts'[m].pc = "done"
              /\ muts'[m].out = refused
              /\ dbEvents' = dbEvents
              /\ published' = published
  /\ \A m \in DOMAIN muts :
       muts[m].out \in {AlreadyAttending, NotAttending} =>
         /\ muts[m].pc = "done"
         /\ ~muts[m].wrote
         /\ muts[m].savedAt = 0
         /\ muts[m].pubs = 0

C22_RefusedUnchanged == [][C22_Step]_vars

\* u1, an attendee of e1, asked to attend it and u3, no attendee, asked to
\* cancel: both were refused, the list is the initial one, nothing published
C22_Witness ==
  /\ \E m, n \in DOMAIN muts :
       /\ muts[m].name = "attendEvent"
       /\ muts[m].user = "u1"
       /\ muts[m].out = AlreadyAttending
       /\ muts[n].name = "cancelAttendance"
       /\ muts[n].user = "u3"
       /\ muts[n].out = NotAttending
  /\ dbEvents["e1"].attendees = <<"u1", "u2">>
  /\ published = <<>>

(***************************************************************************)
(* C26: each successful createEvent, updateEvent, deleteEvent, attendEvent *)
(* and cancelAttendance publishes exactly one message, on its own topic    *)
(* and only after its write was answered; a mutation that fails publishes  *)
(* nothing.                                                                *)
(***************************************************************************)
C26_Step ==
  LET Finishing(m) == /\ muts'[m].pc = "done"
                      /\ (m \in DOMAIN muts => muts[m].pc # "done")
  IN /\ \A m \in DOMAIN muts' :
          Finishing(m) =>
            IF muts'[m].out.kind = "return"
              THEN /\ muts'[m].pubs = 1
                   /\ muts'[m].wrote
                   /\ Len(published') = Len(published) + 1
                   /\ published'[Len(published')].topic = TopicOf(muts'[m].name)
              ELSE /\ muts'[m].pubs = 0
                   /\ published' = published
     /\ published' # published =>
          \E m \in DOMAIN muts' : Finishing(m) /\ muts'[m].out.kind = "return"

C26_PublishOnSuccess == [][C26_Step]_vars

(***************************************************************************)
(* C29: a saved attendEvent or cancelAttendance of one user is never       *)
(* undone or lost through a concurrent attendEvent or cancelAttendance of  *)
(* another user: whether a user is in the stored attendee list is what     *)
(* that user's own last saved call left, so after successful calls by A    *)
(* and by B the list reflects both changes.                                *)
(***************************************************************************)
SavedBy(u, e) ==
  {m \in DOMAIN muts : /\ muts[m].name \in AttendanceFields
                       /\ muts[m].user = u
                       /\ ObjectId(muts[m].arg) = e
                       /\ muts[m].savedAt # 0}

C29_NoLostChange ==
  \A e \in DOMAIN dbEvents, u \in Callers :
    SavedBy(u, e) # {} =>
      LET last == CHOOSE m \in SavedBy(u, e) :
                    \A n \in SavedBy(u, e) : muts[n].savedAt <= muts[m].savedAt
      IN (muts[last].name = "attendEvent") <=> (u \in Range(dbEvents[e].attendees))

\* u3 joined and u1 left e1 in two calls that read the same version of the
\* event; both returned and the list shows both changes
C29_Witness ==
  /\ \E m, n \in DOMAIN muts :
       /\ muts[m].name = "attendEvent"
       /\ muts[m].user = "u3"
       /\ muts[n].name = "cancelAttendance"
       /\ muts[n].user = "u1"
       /\ muts[m].out.kind = "return"
       /\ muts[n].out.kind = "return"
       /\ muts[m].doc.__v = muts[n].doc.__v
  /\ "e1" \in DOMAIN dbEvents
  /\ dbEvents["e1"].attendees = <<"u2", "u3">>

====
